---- MODULE Spec2Model ----
(***************************************************************************)
(* Model of ansys.openapi.common: the ApiClientFactory builder and the     *)
(* OIDCSessionBuilder (src/src/ansys/openapi/common/_session.py), with the  *)
(* parts of OIDCSessionFactory (_oidc.py) and of the WWW-Authenticate      *)
(* handling (_util.py) that the builder steps run.                         *)
(*                                                                         *)
(* One action per public method.  Every answer of the API server, of the   *)
(* identity provider and of the keyring is an input of the action, drawn   *)
(* with \E.  A request is recorded at the level of one session.get call.   *)
(*                                                                         *)
(* Spec takes every method as one step.  InteractiveSpec follows           *)
(* get_session_with_interactive_authorization through the wait of the      *)
(* callback server (handle_request) step by step, with a clock, and has    *)
(* the authorize of ansys.grantami.common beside it.  TokenSpec follows    *)
(* the tokens, the keyring and the header sets of an OpenID Connect        *)
(* session from with_oidc to the requests of the connected client.         *)
(* ParseSpec runs AuthenticateHeaderParser, character by character, on the *)
(* headers of tests/test_parse_authenticate.py and on malformed ones.      *)
(***************************************************************************)
EXTENDS Integers, Sequences, FiniteSets, TLC

(* ---------------- bounds ---------------- *)

\* largest number of challenges in one WWW-Authenticate header
MaxOffered == 2

\* largest login_timeout a caller passes, in ticks of the clock
MaxTimeout == 2

\* most interactive authorizations begun on one session factory
MaxAttempts == 2

(* ---------------- the server's answers ---------------- *)

Statuses == {200, 204, 401, 403}

ReasonOf(s) ==
    CASE s = 200 -> "OK"
      [] s = 204 -> "No Content"
      [] s = 401 -> "Unauthorized"
      [] s = 403 -> "Forbidden"
      [] OTHER   -> "Unknown"

\* scheme names as a server may spell them (the comparison of the code is
\* case-insensitive: one of them is not in the spelling the code asks for)
Spellings == {"Negotiate", "NTLM", "BASIC", "Bearer"}

BearerFields    == {"redirecturi", "authority", "clientid"}
WellKnownFields == {"authorization_endpoint", "token_endpoint"}

\* a WWW-Authenticate header of a response: absent, malformed, or a list of
\* challenges: the scheme names as spelled, and what follows Bearer, which is
\* a list of name="value" parameters (bearer: their names) or, when token68
\* is set, one token68 string (bearer: the mandatory names that occur in it)
NoHeader  == [kind |-> "absent", schemes |-> {}, bearer |-> {}, token68 |-> FALSE]
Malformed == [kind |-> "malformed", schemes |-> {}, bearer |-> {}, token68 |-> FALSE]

Headers ==
    {NoHeader, Malformed}
      \cup {[kind |-> "challenges", schemes |-> S, bearer |-> {}, token68 |-> FALSE] :
               S \in {T \in SUBSET Spellings : Cardinality(T) \in 1..MaxOffered}}

\* the same, and a lone Bearer challenge with every choice of its parameters
\* or of the names in its token68
HeadersWithBearer ==
    Headers
      \cup {[kind |-> "challenges", schemes |-> {"Bearer"}, bearer |-> B,
              token68 |-> t] :
               B \in SUBSET BearerFields, t \in BOOLEAN}

\* the headers a response of status s may carry: the challenge header comes
\* with a 401
HeadersOf(s, all) == IF s = 401 THEN all ELSE {NoHeader}

(* ---------------- messages, as lists of words ---------------- *)

Contains(msg, phrase) ==
    \E i \in 0..(Len(msg) - Len(phrase)) :
        \A j \in 1..Len(phrase) : msg[i + j] = phrase[j]

NoMsg == << >>
MsgNotConfigured == <<"No", "authentication", "configured", "yet", ".">>
MsgCredentials   == <<"Unable", "to", "connect", "with", "credentials", "provided",
                      ".">>
MsgAutologon     == <<"Unable", "to", "connect", "with", "autologon", ".">>
MsgNoHeader      == <<"No", "www-authenticate", "header", "was", "provided", ".",
                      "Cannot", "continue", "...">>
MsgParse         == <<"Failed", "to", "parse", "value">>
MsgKerberos      == <<"Kerberos", "is", "not", "enabled", ".">>
MsgOidcDisabled  == <<"OpenID", "Connect", "features", "are", "not", "enabled", ".">>
MsgAnonymous     == <<"Credentials", "were", "provided", "but", "server", "accepts",
                      "anonymous", "connections", ".", "Continuing", "without",
                      "credentials", ".">>
MsgOidcUnsupported == <<"Unable", "to", "connect", "with", "OpenID", "Connect", ":",
                        "not", "supported", "on", "this", "server", ".">>
MsgNoStored      == <<"No", "stored", "credentials", "found", ".">>

(* ---------------- state ---------------- *)

VARIABLES
    configured,              \* ApiClientFactory._configured
    auth,                    \* the auth attribute of ApiClientFactory._session
    session,                 \* the kind of object ApiClientFactory._session is
    builders,                \* the OIDCSessionBuilder objects the caller holds
    oauth_current,           \* _session is the live OIDCSessionFactory's OAuth2Session
    listeners,               \* how many OIDCCallbackHTTPServer objects hold port 32284
    platform_windows,        \* module flag _platform_windows
    linux_kerberos_enabled,  \* module flag _linux_kerberos_enabled
    oidc_enabled,            \* module flag _oidc_enabled
    effect,                  \* what the most recent call touched besides the session
    flow,                    \* the interactive authorization in progress, if any
    passwords,               \* the system keyring: (service, username) -> password
    idp,                     \* how the identity provider answers a refresh grant
    oauth,                   \* the session factory's OAuth2Session: its tokens
    challenge,               \* OIDCSessionFactory._authenticate_parameters
    headers,                 \* the headers of the two SessionConfiguration objects
    call,                    \* the arguments of the most recent builder call
    www_authenticate,        \* the header value handed to parse_authenticate
    parsed,                  \* what parse_authenticate returned or raised for it
    session_kwargs,          \* the configuration set_session_kwargs put last on
                             \* the requests.Session of the factory
    mapping,                 \* a CaseInsensitiveOrderedDict and the last
                             \* operation on it
    last,                    \* what the most recent call did and how it ended
    returned                 \* the calls that have returned normally so far: an
                             \* authentication step or builder method ("step"),
                             \* with_oidc on a 2xx probe ("with_oidc_2xx")

vars == <<configured, auth, session, builders, oauth_current, listeners,
          platform_windows, linux_kerberos_enabled, oidc_enabled, effect, flow,
          passwords, idp, oauth, challenge, headers, call, www_authenticate,
          parsed, session_kwargs, mapping, last, returned>>

flags == <<platform_windows, linux_kerberos_enabled, oidc_enabled>>

\* the state that only TokenSpec, only ParseSpec or only DictSpec follows
elsewhere ==
    <<passwords, idp, oauth, challenge, headers, call, www_authenticate, parsed,
      session_kwargs, mapping>>

NoResp == [n |-> 0, status |-> 0, reason |-> ""]

\* the response object an ApiConnectionException carries: the n-th of the call
Resp(n, s) == [n |-> n, status |-> s, reason |-> ReasonOf(s)]

\* one session.get: where it went, the authenticator on the session, whether
\* it is this call that attached that authenticator, and the status and the
\* WWW-Authenticate header of the response
Req(to, a, own, s, hdr) ==
    [to |-> to, auth |-> a, own |-> own, status |-> s, header |-> hdr]

\* what one call did: how it ended (with the message and the response of the
\* exception raised), the session.get calls it made, the warning it emitted,
\* the authenticator it attached, the auth it left on the session and
\* whether it set _configured
Result(outcome, msg, resp, reqs, warning, attached, a, conf) ==
    [outcome |-> outcome, msg |-> msg, resp |-> resp, reqs |-> reqs,
     warning |-> warning, attached |-> attached, auth |-> a, conf |-> conf]

\* what a call touched besides the session: the builder it was made on
\* ("none" for a call on the factory), whether it read the keyring or opened the
\* browser, how many times it constructed an OIDCCallbackHTTPServer, and the
\* keys of the well-known document it fetched
Effect(builder, keyring, browser, binds, well_known) ==
    [builder |-> builder, keyring |-> keyring, browser |-> browser,
     binds |-> binds, well_known |-> well_known]

NoEffect == Effect("none", FALSE, FALSE, 0, {})

\* no interactive authorization was begun on the session factory: where the
\* call stands (pc), login_timeout and the time waited, the request that
\* arrived and how the wait ended, the urls put on the queue of the callback
\* server (in this call, and in all), the calls begun, and whether the browser
\* was opened and the callback server was listening when it was
Idle ==
    [pc |-> "idle", timeout |-> 0, elapsed |-> 0, request |-> "none",
     ended |-> "none", captured |-> 0, queue |-> 0, attempts |-> 0,
     opened |-> FALSE, listening |-> FALSE]

Call(op, res) ==
    [op |-> op, outcome |-> res.outcome, msg |-> res.msg, resp |-> res.resp,
     reqs |-> res.reqs, warning |-> res.warning, attached |-> res.attached,
     conf |-> res.conf]

(* ---------------- helpers of the builder ---------------- *)

Is2xx(s) == 200 <= s /\ s < 300

\* __test_connection that takes only a 401 for a failure
test_connection_only_401(s) == IF s = 401 THEN "ApiConnectionException" ELSE "ok"

\* __test_connection that never raises
test_connection_accepts_all(s) == "ok"

\* ApiClientFactory.__test_connection on a response of status s
test_connection(s) == IF Is2xx(s) THEN "ok" ELSE "ApiConnectionException"

\* __handle_initial_response without its branch for the other statuses
handle_initial_response_no_error(s) == IF Is2xx(s) THEN "anonymous" ELSE "challenge"

\* ApiClientFactory.__handle_initial_response on a response of status s
handle_initial_response(s) ==
    IF Is2xx(s) THEN "anonymous"
    ELSE IF s # 401 THEN "ApiConnectionException"
    ELSE "challenge"

\* str.lower on the scheme names in use
Lower(k) ==
    CASE k = "Negotiate" -> "negotiate"
      [] k = "NTLM"      -> "ntlm"
      [] k \in {"Basic", "BASIC"} -> "basic"
      [] k = "Bearer"    -> "bearer"
      [] k = "TOKEN_ENDPOINT" -> "token_endpoint"
      [] k \in {"apiAudience", "APIAUDIENCE"} -> "apiaudience"
      [] OTHER           -> k

\* the keys of the CaseInsensitiveOrderedDict parse_authenticate returns
parse_authenticate(schemes) == {Lower(k) : k \in schemes}

\* CaseInsensitiveOrderedDict.__contains__
HasKey(keys, k) == Lower(k) \in keys

\* with_credentials that attaches without looking at the challenges
credentials_scheme_preemptive(windows, keys) == IF windows THEN "ntlm" ELSE "basic"

\* with_credentials without the platform test on the NTLM branch
credentials_scheme_any_platform(windows, keys) ==
    IF HasKey(keys, "Negotiate") \/ HasKey(keys, "NTLM") THEN "ntlm"
    ELSE IF HasKey(keys, "Basic") THEN "basic"
    ELSE "none"

\* with_credentials that falls back to Basic when nothing it supports is offered
credentials_scheme_basic_fallback(windows, keys) ==
    IF (HasKey(keys, "Negotiate") \/ HasKey(keys, "NTLM")) /\ windows THEN "ntlm"
    ELSE "basic"

\* the scheme with_credentials attaches for a parsed 401 challenge set
\* (__test_connection never returns False, so the NTLM branch never falls
\* through to the Basic branch)
credentials_scheme(windows, keys) ==
    IF (HasKey(keys, "Negotiate") \/ HasKey(keys, "NTLM")) /\ windows THEN "ntlm"
    ELSE IF HasKey(keys, "Basic") THEN "basic"
    ELSE "none"

\* with_autologon that takes an NTLM offer for a Negotiate offer
autologon_scheme_ntlm(keys) ==
    IF HasKey(keys, "Negotiate") \/ HasKey(keys, "NTLM") THEN "negotiate" ELSE "none"

\* the scheme with_autologon attaches for a parsed 401 challenge set
autologon_scheme(keys) == IF HasKey(keys, "Negotiate") THEN "negotiate" ELSE "none"

(* ---------------- tokens, keyring and header sets ---------------- *)

\* Python's None
None == "None"

\* the refresh tokens of the runs
Tokens == {"A", "B"}

\* the keys of the keyring: the service name (the token_name of
\* with_stored_token, "ansys-openapi-common-oidc" unless the caller names
\* another) and the username (a url)
TokenNames == {"ansys-openapi-common-oidc", "custom"}
Keys       == TokenNames \X {"api_url", "authority"}

\* the keyrings of the runs: no entry, or one
Keyrings ==
    {k \in [Keys -> Tokens \cup {None}] :
        Cardinality({x \in Keys : k[x] # None}) <= 1}

NoKeyring == [x \in Keys |-> None]

\* an OAuth2Session as its constructor leaves it: token = {}, no refresh
\* token on the client, no auto_refresh_url
NoOAuth == [refresh |-> None, access |-> None, auto_refresh_url |-> None,
            client_id |-> None]

\* the names of the headers in use, in lower case (a CaseInsensitiveDict), and
\* a header set with no entry
NoHeaders ==
    [h \in {"user-agent", "accept", "content-type", "audience"} |-> None]

\* the headers of the SessionConfiguration of the API server once
\* ApiClientFactory.__init__ has added User-Agent, and of the one the caller
\* hands to with_oidc (a new SessionConfiguration when the caller hands none)
ApiHeaders ==
    {[NoHeaders EXCEPT !["user-agent"] = "ansys-openapi-common", !["audience"] = a] :
        a \in {None, "caller"}}
IdpHeaders ==
    {[NoHeaders EXCEPT !["accept"] = a] : a \in {None, "text/html"}}

\* the arguments of a builder call: none yet
NoCall == [token_name |-> None, refresh_token |-> None]

\* the outcome of parse_header: nothing has been parsed
NotParsed == [outcome |-> "none", msg |-> NoMsg, value |-> << >>]

\* no CaseInsensitiveOrderedDict has been made: the dictionary (the sequence
\* of its items <<key, value>>), the last operation on it with its key and its
\* value or default, and what the operation returned or raised
NoMapping ==
    [dict |-> << >>, op |-> "none", key |-> None, given |-> None,
     outcome |-> "none", result |-> None]

(* ---------------- initial state ---------------- *)

\* the state TokenSpec and ParseSpec follow, where no specification follows it
Apart ==
    /\ passwords = NoKeyring
    /\ idp = "accept"
    /\ oauth = NoOAuth
    /\ challenge = {}
    /\ headers = [api |-> NoHeaders, idp |-> NoHeaders]
    /\ call = NoCall
    /\ www_authenticate = << >>
    /\ parsed = NotParsed
    /\ session_kwargs = "api"
    /\ mapping = NoMapping

Init ==
    /\ configured = FALSE
    /\ auth = "none"
    /\ session = "requests"
    /\ builders = {}
    /\ oauth_current = FALSE
    /\ listeners = 0
    /\ effect = NoEffect
    /\ flow = Idle
    /\ Apart
    /\ platform_windows \in BOOLEAN
    /\ linux_kerberos_enabled \in BOOLEAN
    /\ platform_windows => linux_kerberos_enabled
    /\ oidc_enabled \in BOOLEAN
    /\ last = Call("__init__", Result("ok", NoMsg, NoResp, << >>, NoMsg, "none",
                                      "none", FALSE))
    /\ returned = {}

(* ---------------- ApiClientFactory ---------------- *)

\* _validate_builder that lets an unconfigured factory through
validate_builder_skipped(conf) == "ok"

\* ApiClientFactory._validate_builder
validate_builder(conf) == IF ~conf THEN "ValueError" ELSE "ok"

\* ApiClientFactory.connect
connect ==
    /\ last' = IF validate_builder(configured) = "ok"
                 THEN Call("connect", Result("ok", NoMsg, NoResp, << >>, NoMsg,
                                             "none", auth, FALSE))
                 ELSE Call("connect", Result("ValueError", MsgNotConfigured, NoResp,
                                             << >>, NoMsg, "none", auth, FALSE))
    /\ effect' = NoEffect
    /\ UNCHANGED <<configured, auth, session, builders, oauth_current, listeners,
                   flags, elsewhere, flow, returned>>

\* a step of the factory that leaves _configured as this call alone set it
Apply_reset(op, res) ==
    /\ configured' = res.conf
    /\ auth' = res.auth
    /\ returned' = IF res.outcome = "ok" THEN returned \cup {"step"} ELSE returned
    /\ last' = Call(op, res)
    /\ effect' = NoEffect

\* the effect of a step of the factory itself on the state
Apply(op, res) ==
    /\ configured' = (configured \/ res.conf)
    /\ auth' = res.auth
    /\ returned' = IF res.outcome = "ok" THEN returned \cup {"step"} ELSE returned
    /\ last' = Call(op, res)
    /\ effect' = NoEffect

\* the body of with_anonymous: a is session.auth on entry, s the status of
\* the response to the request of __test_connection
anonymous_step(a, s) ==
    LET probe == Req("api", a, FALSE, s, NoHeader) IN
    IF test_connection(s) = "ok"
    THEN Result("ok", NoMsg, NoResp, <<probe>>, NoMsg, "none", a, TRUE)
    ELSE Result("ApiConnectionException", NoMsg, Resp(1, s), <<probe>>, NoMsg,
                "none", a, FALSE)

\* ApiClientFactory.with_anonymous
with_anonymous ==
    \E s \in Statuses :
        /\ Apply("with_anonymous", anonymous_step(auth, s))
        /\ UNCHANGED <<session, builders, oauth_current, listeners, flags,
                       elsewhere, flow>>

\* __get_authenticate_header that takes a response without the header for one
\* that offers nothing
header_missing_ignored(hdr) == FALSE

\* `"www-authenticate" not in response.headers` in __get_authenticate_header
header_missing(hdr) == hdr.kind = "absent"

\* the body of with_credentials: a is session.auth on entry, ps and hdr the
\* status and the WWW-Authenticate header of the probe's response, vs the
\* status of the response to the request of __test_connection
credentials_step(a, windows, ps, hdr, vs) ==
    LET probe   == Req("api", a, FALSE, ps, hdr)
        initial == handle_initial_response(ps)
    IN
    IF initial = "anonymous"
    THEN Result("ok", NoMsg, NoResp, <<probe>>, MsgAnonymous, "none", a, TRUE)
    ELSE IF initial = "ApiConnectionException"
    THEN Result("ApiConnectionException", NoMsg, Resp(1, ps), <<probe>>, NoMsg,
                "none", a, FALSE)
    ELSE IF header_missing(hdr)
    THEN Result("ValueError", MsgNoHeader, NoResp, <<probe>>, NoMsg, "none", a, FALSE)
    ELSE IF hdr.kind = "malformed"
    THEN Result("ValueError", MsgParse, NoResp, <<probe>>, NoMsg, "none", a, FALSE)
    ELSE
    LET chosen == credentials_scheme(windows, parse_authenticate(hdr.schemes))
        check  == Req("api", chosen, TRUE, vs, NoHeader)
    IN
    IF chosen = "none"
    THEN Result("ConnectionError", MsgCredentials, NoResp, <<probe>>, NoMsg,
                "none", a, FALSE)
    ELSE IF test_connection(vs) = "ok"
    THEN Result("ok", NoMsg, NoResp, <<probe, check>>, NoMsg, chosen, chosen, TRUE)
    ELSE Result("ApiConnectionException", NoMsg, Resp(2, vs), <<probe, check>>,
                NoMsg, chosen, chosen, FALSE)

\* ApiClientFactory.with_credentials
with_credentials ==
    \E ps \in Statuses :
    \E hdr \in HeadersOf(ps, Headers) :
    \E vs \in IF credentials_step(auth, platform_windows, ps, hdr, 200).attached
                  # "none"
               THEN Statuses ELSE {200} :
        /\ Apply("with_credentials",
                 credentials_step(auth, platform_windows, ps, hdr, vs))
        /\ UNCHANGED <<session, builders, oauth_current, listeners, flags,
                       elsewhere, flow>>

\* the body of with_autologon, with the arguments of credentials_step and
\* kerberos = _platform_windows or _linux_kerberos_enabled
autologon_step(a, kerberos, ps, hdr, vs) ==
    LET probe   == Req("api", a, FALSE, ps, hdr)
        initial == handle_initial_response(ps)
    IN
    IF ~kerberos
    THEN Result("ImportError", MsgKerberos, NoResp, << >>, NoMsg, "none", a, FALSE)
    ELSE IF initial = "anonymous"
    THEN Result("ok", NoMsg, NoResp, <<probe>>, MsgAnonymous, "none", a, TRUE)
    ELSE IF initial = "ApiConnectionException"
    THEN Result("ApiConnectionException", NoMsg, Resp(1, ps), <<probe>>, NoMsg,
                "none", a, FALSE)
    ELSE IF header_missing(hdr)
    THEN Result("ValueError", MsgNoHeader, NoResp, <<probe>>, NoMsg, "none", a, FALSE)
    ELSE IF hdr.kind = "malformed"
    THEN Result("ValueError", MsgParse, NoResp, <<probe>>, NoMsg, "none", a, FALSE)
    ELSE
    LET chosen == autologon_scheme(parse_authenticate(hdr.schemes))
        check  == Req("api", chosen, TRUE, vs, NoHeader)
    IN
    IF chosen = "none"
    THEN Result("ConnectionError", MsgAutologon, NoResp, <<probe>>, NoMsg,
                "none", a, FALSE)
    ELSE IF test_connection(vs) = "ok"
    THEN Result("ok", NoMsg, NoResp, <<probe, check>>, NoMsg, chosen, chosen, TRUE)
    ELSE Result("ApiConnectionException", NoMsg, Resp(2, vs), <<probe, check>>,
                NoMsg, chosen, chosen, FALSE)

\* ApiClientFactory.with_autologon
with_autologon ==
    \E ps \in Statuses :
    \E hdr \in HeadersOf(ps, Headers) :
    \E vs \in IF autologon_step(auth, platform_windows \/ linux_kerberos_enabled,
                                 ps, hdr, 200).attached # "none"
               THEN Statuses ELSE {200} :
        /\ Apply("with_autologon",
                 autologon_step(auth, platform_windows \/ linux_kerberos_enabled,
                                ps, hdr, vs))
        /\ UNCHANGED <<session, builders, oauth_current, listeners, flags,
                       elsewhere, flow>>

(* ---------------- OpenID Connect ---------------- *)

\* the names of `wanted` (in its order) that `present` lacks
Missing(wanted, present) ==
    LET absent(x) == x \notin present IN SelectSeq(wanted, absent)

\* the ConnectionError of OIDCSessionFactory._parse_unauthorized_header
MsgMissingHeaders(missing) ==
    IF Len(missing) > 1
    THEN <<"Unable", "to", "connect", "with", "OpenID", "Connect", ".",
           "Mandatory", "headers">> \o missing \o <<"were", "not", "provided",
           ".", "Cannot", "continue", "...">>
    ELSE <<"Unable", "to", "connect", "with", "OpenID", "Connect", ".",
           "Mandatory", "header">> \o missing \o <<"was", "not", "provided", ".",
           "Cannot", "continue", "...">>

\* the ConnectionError of _fetch_and_parse_well_known that names the first
\* missing parameter only
MsgMissingWellKnown_first(missing) ==
    <<"Unable", "to", "connect", "with", "OpenID", "Connect", ".",
      "Well-known", "parameter", missing[1], "was", "not", "provided", ".",
      "Cannot", "continue", "...">>

\* the ConnectionError of OIDCSessionFactory._fetch_and_parse_well_known
MsgMissingWellKnown(missing) ==
    IF Len(missing) > 1
    THEN <<"Unable", "to", "connect", "with", "OpenID", "Connect", ".",
           "Mandatory", "well-known", "parameters">> \o missing \o <<"were",
           "not", "provided", ".", "Cannot", "continue", "...">>
    ELSE <<"Unable", "to", "connect", "with", "OpenID", "Connect", ".",
           "Well-known", "parameter">> \o missing \o <<"was", "not", "provided",
           ".", "Cannot", "continue", "...">>

\* the keys of CaseInsensitiveDict(authority_response.json())
well_known_configuration(wk) == {Lower(k) : k \in wk}

\* an HTTPServer that binds the port whoever holds it
server_bind_shared(held) == "ok"

\* OIDCCallbackHTTPServer.__init__: HTTPServer binds ("", 32284) and listens;
\* the bind fails while `held` other sockets hold the port
server_bind(held) == IF held > 0 THEN "OSError" ELSE "ok"

\* OIDCSessionFactory.__init__ on the 401 response of the probe: a is the
\* auth of the initial session, hdr the header of the 401, wk the keys of the
\* well-known document, held the number of sockets on port 32284, probe the
\* request already made.  `name in bearer_parameters` is a key lookup on the
\* parameters of Bearer and a substring test on a token68 string, which
\* cannot be indexed by "authority" afterwards
session_factory_init(a, hdr, wk, held, probe) ==
    LET keys      == parse_authenticate(hdr.schemes)
        params    == Missing(<<"redirecturi", "authority", "clientid">>, hdr.bearer)
        discover  == Req("idp", a, FALSE, 200, NoHeader)
        endpoints == Missing(<<"authorization_endpoint", "token_endpoint">>,
                             well_known_configuration(wk))
    IN
    IF hdr.kind = "absent"
    THEN Result("KeyError", NoMsg, NoResp, <<probe>>, NoMsg, "none", a, FALSE)
    ELSE IF hdr.kind = "malformed"
    THEN Result("ValueError", MsgParse, NoResp, <<probe>>, NoMsg, "none", a, FALSE)
    ELSE IF ~HasKey(keys, "bearer")
    THEN Result("ConnectionError", MsgOidcUnsupported, NoResp, <<probe>>, NoMsg,
                "none", a, FALSE)
    ELSE IF Len(params) > 0
    THEN Result("ConnectionError", MsgMissingHeaders(params), NoResp, <<probe>>,
                NoMsg, "none", a, FALSE)
    ELSE IF hdr.token68
    THEN Result("TypeError", NoMsg, NoResp, <<probe>>, NoMsg, "none", a, FALSE)
    ELSE IF Len(endpoints) > 0
    THEN Result("ConnectionError", MsgMissingWellKnown(endpoints), NoResp,
                <<probe, discover>>, NoMsg, "none", a, FALSE)
    ELSE IF server_bind(held) # "ok"
    THEN Result("OSError", NoMsg, NoResp, <<probe, discover>>, NoMsg, "none", a,
                FALSE)
    ELSE Result("ok", NoMsg, NoResp, <<probe, discover>>, NoMsg, "none", a, FALSE)

\* the body of with_oidc with the probe sent before _oidc_enabled is looked at
oidc_step_probe_first(a, enabled, ps, hdr, wk, held) ==
    LET probe   == Req("api", a, FALSE, ps, hdr)
        initial == handle_initial_response(ps)
    IN
    IF ~enabled
    THEN Result("ImportError", MsgOidcDisabled, NoResp, <<probe>>, NoMsg, "none",
                a, FALSE)
    ELSE IF initial = "anonymous"
    THEN Result("ok", NoMsg, NoResp, <<probe>>, MsgAnonymous, "none", a, TRUE)
    ELSE IF initial = "ApiConnectionException"
    THEN Result("ApiConnectionException", NoMsg, Resp(1, ps), <<probe>>, NoMsg,
                "none", a, FALSE)
    ELSE session_factory_init(a, hdr, wk, held, probe)

\* the body of with_oidc; enabled is _oidc_enabled, the other arguments are
\* those of session_factory_init
oidc_step(a, enabled, ps, hdr, wk, held) ==
    LET probe   == Req("api", a, FALSE, ps, hdr)
        initial == handle_initial_response(ps)
    IN
    IF ~enabled
    THEN Result("ImportError", MsgOidcDisabled, NoResp, << >>, NoMsg, "none", a,
                FALSE)
    ELSE IF initial = "anonymous"
    THEN Result("ok", NoMsg, NoResp, <<probe>>, MsgAnonymous, "none", a, TRUE)
    ELSE IF initial = "ApiConnectionException"
    THEN Result("ApiConnectionException", NoMsg, Resp(1, ps), <<probe>>, NoMsg,
                "none", a, FALSE)
    ELSE session_factory_init(a, hdr, wk, held, probe)

\* ApiClientFactory.with_oidc: the builder returned holds a session factory
\* exactly when the probe was answered 401; the session factory constructs
\* its callback server last, after the well-known document was accepted
with_oidc ==
    /\ flow.pc = "idle"
    /\ \E ps \in Statuses :
       \E hdr \in HeadersOf(ps, HeadersWithBearer) :
       \E wk \in IF ps = 401 /\ hdr.bearer = BearerFields /\ ~hdr.token68
                  THEN SUBSET (WellKnownFields \cup {"TOKEN_ENDPOINT"}) ELSE {{}} :
        LET res   == oidc_step(auth, oidc_enabled, ps, hdr, wk, listeners)
            made  == res.outcome = "ok" /\ ~res.conf
            found == Len(res.reqs) = 2
            built == found /\ res.outcome \in {"ok", "OSError"}
        IN
        /\ configured' = (configured \/ res.conf)
        /\ auth' = res.auth
        /\ returned' = IF res.outcome = "ok" /\ ~made
                       THEN returned \cup {"with_oidc_2xx"}
                       ELSE returned
        /\ builders' = IF res.outcome # "ok" THEN builders
                       ELSE IF made THEN builders \cup {"oidc"}
                       ELSE builders \cup {"anon"}
        /\ listeners' = IF made THEN listeners + 1 ELSE listeners
        /\ oauth_current' = (oauth_current /\ ~made)
        /\ last' = Call("with_oidc", res)
        /\ effect' = Effect("none", FALSE, FALSE, IF built THEN 1 ELSE 0,
                            IF found THEN wk ELSE {})
        /\ UNCHANGED <<session, flags, elsewhere, flow>>

\* a builder that goes on without looking at its session factory
session_factory_is_none_unchecked(b) == FALSE

\* `self._session_factory is None` in the methods of OIDCSessionBuilder
session_factory_is_none(b) == b = "anon"

\* a builder method that returns the client factory untouched
ReturnFactory(op, b) ==
    /\ returned' = returned \cup {"step"}
    /\ last' = Call(op, Result("ok", NoMsg, NoResp, << >>, NoMsg, "none", auth,
                               FALSE))
    /\ effect' = Effect(b, FALSE, FALSE, 0, {})
    /\ UNCHANGED <<configured, auth, session, builders, oauth_current, listeners,
                   flags, elsewhere, flow>>

\* a builder method that raises after it has assigned the session of the
\* factory and set _configured
Raise_after_assignment(op, outcome, msg, eff) ==
    /\ last' = Call(op, Result(outcome, msg, NoResp, << >>, NoMsg, "none", auth,
                               FALSE))
    /\ effect' = eff
    /\ session' = "oauth"
    /\ configured' = TRUE
    /\ UNCHANGED <<auth, builders, oauth_current, listeners, flags, flow, returned>>

\* a builder method that raises
Raise(op, outcome, msg, eff) ==
    /\ last' = Call(op, Result(outcome, msg, NoResp, << >>, NoMsg, "none", auth,
                               FALSE))
    /\ effect' = eff
    /\ UNCHANGED <<configured, auth, session, builders, oauth_current, listeners,
                   flags, flow, returned>>

\* the factory's session becomes the session factory's OAuth2Session
\* (get_session_with_provided_token sends nothing and does not raise)
UseOAuthSession(op, eff) ==
    /\ session' = "oauth"
    /\ auth' = IF oauth_current THEN auth ELSE "none"
    /\ oauth_current' = TRUE
    /\ configured' = TRUE
    /\ returned' = returned \cup {"step"}
    /\ last' = Call(op, Result("ok", NoMsg, NoResp, << >>, NoMsg, "none", auth',
                               TRUE))
    /\ effect' = eff
    /\ UNCHANGED <<builders, listeners, flags, flow>>

\* OIDCSessionBuilder.with_token
with_token ==
    /\ flow.pc = "idle"
    /\ \E b \in builders :
        IF session_factory_is_none(b) THEN ReturnFactory("with_token", b)
        ELSE /\ UseOAuthSession("with_token", Effect(b, FALSE, FALSE, 0, {}))
             /\ UNCHANGED elsewhere

\* OIDCSessionBuilder.with_stored_token; found: the keyring has the entry
with_stored_token ==
    /\ flow.pc = "idle"
    /\ \E b \in builders, found \in BOOLEAN :
        IF session_factory_is_none(b) THEN ReturnFactory("with_stored_token", b)
        ELSE IF ~found
        THEN /\ Raise("with_stored_token", "ValueError", MsgNoStored,
                      Effect(b, TRUE, FALSE, 0, {}))
             /\ UNCHANGED elsewhere
        ELSE /\ UseOAuthSession("with_stored_token", Effect(b, TRUE, FALSE, 0, {}))
             /\ UNCHANGED elsewhere

\* OIDCSessionBuilder.authorize as one step, for a wait that ends: after the
\* browser is opened and handle_request has returned, _get_auth_code reads
\* auth_code from the callback server; OIDCCallbackHTTPServer defines
\* _auth_code and get_auth_code only, so the read raises AttributeError and
\* the factory is left as it was
authorize ==
    /\ flow.pc = "idle"
    /\ \E b \in builders :
        IF session_factory_is_none(b) THEN ReturnFactory("authorize", b)
        ELSE /\ Raise("authorize", "AttributeError", NoMsg,
                      Effect(b, FALSE, TRUE, 0, {}))
             /\ UNCHANGED elsewhere

\* OIDCCallbackHTTPServer.__del__: the caller lets go of a builder; with the
\* session factory (to which nothing else refers) goes its callback server,
\* whose port is released
release_builder ==
    /\ flow.pc = "idle"
    /\ \E b \in builders :
        /\ builders' = builders \ {b}
        /\ listeners' = IF b = "oidc" /\ listeners > 0 THEN listeners - 1
                        ELSE listeners
        /\ oauth_current' = (oauth_current /\ b # "oidc")
        /\ flow' = IF b = "oidc" THEN Idle ELSE flow
        /\ UNCHANGED <<configured, auth, session, flags, elsewhere, effect, last,
                       returned>>

Next ==
    \/ connect
    \/ with_anonymous
    \/ with_credentials
    \/ with_autologon
    \/ with_oidc
    \/ with_token
    \/ with_stored_token
    \/ authorize
    \/ release_builder

Spec == Init /\ [][Next]_vars

(* ---------------- interactive authorization, step by step ---------------- *)

\* the requests a client may make of the callback server: the redirect of the
\* identity provider, a request of another method, a connection on which
\* nothing is sent
Requests == {"GET", "POST", "silent"}

\* _get_auth_code that lets go of the callback server before it looks at the
\* authorization code
read_auth_code_released(queue) == [outcome |-> "AttributeError", deleted |-> TRUE]

\* the end of OIDCSessionFactory._get_auth_code, after handle_request: the
\* read of auth_code raises AttributeError whatever is on the queue, before
\* `del self._callback_server`
read_auth_code(queue) == [outcome |-> "AttributeError", deleted |-> FALSE]

\* the call on the builder ends by raising; the factory is left as it was
EndAuthorize(outcome, deleted) ==
    /\ last' = Call("authorize", Result(outcome, NoMsg, NoResp, << >>, NoMsg,
                                        "none", auth, FALSE))
    /\ effect' = Effect("oidc", FALSE, TRUE, 0, {})
    /\ listeners' = IF deleted /\ listeners > 0 THEN listeners - 1 ELSE listeners
    /\ UNCHANGED <<configured, auth, session, builders, oauth_current, flags, elsewhere,
                   returned>>

\* OIDCSessionFactory.get_session_with_interactive_authorization up to
\* handle_request: the authorization url is built and opened in the browser,
\* then _get_auth_code sets the timeout of the callback server (an
\* AttributeError when the session factory has no callback server) and waits
get_session_with_interactive_authorization ==
    /\ flow.pc = "idle"
    /\ "oidc" \in builders
    /\ flow.attempts < MaxAttempts
    /\ \E login_timeout \in 1..MaxTimeout :
        LET begun == [Idle EXCEPT !.timeout = login_timeout,
                                  !.queue = flow.queue,
                                  !.attempts = flow.attempts + 1,
                                  !.opened = TRUE,
                                  !.listening = (listeners > 0)]
        IN
        IF listeners > 0
        THEN /\ flow' = [begun EXCEPT !.pc = "wait"]
             /\ UNCHANGED <<configured, auth, session, builders, oauth_current,
                            listeners, flags, elsewhere, effect, last, returned>>
        ELSE /\ flow' = begun
             /\ EndAuthorize("AttributeError", FALSE)

\* time passes while handle_request waits in select, up to the timeout, and
\* while the handler waits for the request line of a connection, on whose
\* socket no timeout is set
tick ==
    /\ \/ flow.pc = "wait" /\ flow.elapsed < flow.timeout
       \/ flow.pc = "handle" /\ flow.request = "silent"
            /\ flow.elapsed <= flow.timeout
    /\ flow' = [flow EXCEPT !.elapsed = @ + 1]
    /\ UNCHANGED <<configured, auth, session, builders, oauth_current, listeners,
                   flags, elsewhere, effect, last, returned>>

\* BaseServer.handle_request: no connection within the timeout;
\* handle_timeout does nothing and handle_request returns
handle_timeout ==
    /\ flow.pc = "wait"
    /\ flow.elapsed = flow.timeout
    /\ flow' = [flow EXCEPT !.pc = "read", !.ended = "timeout"]
    /\ UNCHANGED <<configured, auth, session, builders, oauth_current, listeners,
                   flags, elsewhere, effect, last, returned>>

\* BaseServer.handle_request: a connection is accepted and handed to a
\* ResponseHandler
get_request ==
    /\ flow.pc = "wait"
    /\ \E r \in Requests : flow' = [flow EXCEPT !.pc = "handle", !.request = r]
    /\ UNCHANGED <<configured, auth, session, builders, oauth_current, listeners,
                   flags, elsewhere, effect, last, returned>>

\* ResponseHandler.do_GET: answers 200 and puts the url on the queue of the
\* server; handle_request returns
do_GET ==
    /\ flow.pc = "handle"
    /\ flow.request = "GET"
    /\ flow' = [flow EXCEPT !.pc = "read", !.ended = "GET",
                            !.captured = @ + 1, !.queue = @ + 1]
    /\ UNCHANGED <<configured, auth, session, builders, oauth_current, listeners,
                   flags, elsewhere, effect, last, returned>>

\* BaseHTTPRequestHandler on a method ResponseHandler does not define:
\* answers 501; handle_request returns
send_error ==
    /\ flow.pc = "handle"
    /\ flow.request = "POST"
    /\ flow' = [flow EXCEPT !.pc = "read", !.ended = "other"]
    /\ UNCHANGED <<configured, auth, session, builders, oauth_current, listeners,
                   flags, elsewhere, effect, last, returned>>

\* the peer closes a connection on which it sent nothing: the handler reads
\* an empty request line and handle_request returns
connection_closed ==
    /\ flow.pc = "handle"
    /\ flow.request = "silent"
    /\ flow' = [flow EXCEPT !.pc = "read", !.ended = "closed"]
    /\ UNCHANGED <<configured, auth, session, builders, oauth_current, listeners,
                   flags, elsewhere, effect, last, returned>>

\* OIDCSessionFactory._get_auth_code after handle_request
get_auth_code ==
    /\ flow.pc = "read"
    /\ flow' = [flow EXCEPT !.pc = "idle", !.elapsed = 0, !.request = "none"]
    /\ EndAuthorize(read_auth_code(flow.queue).outcome,
                    read_auth_code(flow.queue).deleted)

\* OIDCSessionFactory.authorize of ansys.grantami.common on a session
\* factory just constructed: the browser is opened, asyncio.wait_for makes a
\* coroutine that nobody awaits (no thread is started, nothing is served), and
\* shutdown() waits for a serve_forever loop to end
grantami_authorize ==
    /\ flow.pc = "idle"
    /\ "oidc" \in builders
    /\ flow.attempts = 0
    /\ \E login_timeout \in 1..MaxTimeout :
        flow' = [Idle EXCEPT !.pc = "shutdown", !.timeout = login_timeout,
                             !.attempts = 1, !.opened = TRUE,
                             !.listening = (listeners > 0)]
    /\ UNCHANGED <<configured, auth, session, builders, oauth_current, listeners,
                   flags, elsewhere, effect, last, returned>>

InteractiveNext ==
    \/ with_oidc
    \/ get_session_with_interactive_authorization
    \/ tick
    \/ handle_timeout
    \/ get_request
    \/ do_GET
    \/ send_error
    \/ connection_closed
    \/ get_auth_code
    \/ grantami_authorize
    \/ release_builder

InteractiveSpec == Init /\ [][InteractiveNext]_vars

(* ---------------- the tokens of an OpenID Connect session ---------------- *)

\* the parameters of a Bearer challenge as the server spells them, as pairs
\* <<name, value>>: the three mandatory ones, apiAudience or not, scope or not
\* (a scope is a string of words, kept as the list of its words)
BearerChallenges ==
    {{<<"redirecturi", "http://localhost:32284">>,
      <<"authority", "https://idp.example.com/">>,
      <<"clientid", "abc123">>} \cup a \cup sc :
        a \in {{}} \cup {{<<k, "api://audience">>} :
                            k \in {"apiAudience", "APIAUDIENCE"}},
        sc \in {{}, {<<"scope", <<"openid">>>>},
                {<<"scope", <<"openid", "offline_access">>>>}}}

\* AuthenticateHeaderParser._render_options on the parameters of a challenge:
\* a CaseInsensitiveOrderedDict, whose keys are in lower case (the order of the
\* parameters is not followed here)
render_options(pairs) == {<<Lower(p[1]), p[2]>> : p \in pairs}

\* the keys of such a dictionary
KeysOf(d) == {p[1] : p \in d}

\* CaseInsensitiveOrderedDict.__getitem__
GetItem(d, k) == CHOOSE v \in {p[2] : p \in d} : <<Lower(k), v>> \in d

\* `"offline_access" in scopes`
HasOfflineAccess(scopes) == \E i \in 1..Len(scopes) : scopes[i] = "offline_access"

\* OIDCSessionFactory._override_idp_header on a header set that is not None
override_idp_header(h) ==
    [h EXCEPT !["accept"] = "application/json",
              !["content-type"] = "application/x-www-form-urlencoded;charset=UTF-8"]

\* _add_api_audience_if_set that looks the parameter up as it is spelled in
\* the code, in a dictionary whose keys are in lower case
add_api_audience_if_set_exact(params, hs) ==
    IF "apiAudience" \notin KeysOf(params) THEN hs
    ELSE [api |-> [hs.api EXCEPT !["audience"] = GetItem(params, "apiAudience")],
          idp |-> [hs.idp EXCEPT !["audience"] = GetItem(params, "apiAudience")]]

\* OIDCSessionFactory._add_api_audience_if_set: params is
\* _authenticate_parameters, hs the headers of the API and of the identity
\* provider configuration
add_api_audience_if_set(params, hs) ==
    IF ~HasKey(KeysOf(params), "apiAudience") THEN hs
    ELSE [api |-> [hs.api EXCEPT !["audience"] = GetItem(params, "apiAudience")],
          idp |-> [hs.idp EXCEPT !["audience"] = GetItem(params, "apiAudience")]]

\* OIDCSessionFactory._configure_token_refresh
configure_token_refresh(o, params) ==
    [o EXCEPT !.auto_refresh_url = "token_endpoint",
              !.client_id = GetItem(params, "clientid")]

\* the two set_session_kwargs of _fetch_and_parse_well_known around the GET of
\* the well-known document: the configuration of the identity provider is put
\* on the initial session before the GET and that of the API once the GET has
\* returned, which an exception raised by the GET skips
fetch_well_known_kwargs(get) == IF get = "exception" THEN "idp" ELSE "api"

\* ApiClientFactory.with_oidc against a server that answers the probe 401 with
\* a Bearer challenge that has its mandatory parameters: the steps of
\* OIDCSessionFactory.__init__ on the headers, the initial session, the
\* OAuth2Session it makes and the callback server it binds (the header of the
\* 401 is recorded with its parameters as spelled).  The GET of the
\* well-known document returns a document with the keys wk, or raises (no
\* response: status 0); the factory is made when the document has both
\* endpoints
OIDCSessionFactory_init ==
    /\ builders = {}
    /\ \E pairs \in BearerChallenges, get \in {"response", "exception"} :
       \E wk \in IF get = "response" THEN SUBSET WellKnownFields ELSE {{}} :
        LET hdr    == [kind |-> "challenges", schemes |-> {"Bearer"},
                       bearer |-> BearerFields, token68 |-> FALSE,
                       parameters |-> pairs]
            found  == oidc_step(auth, oidc_enabled, 401, hdr, wk, listeners)
            res    == IF get = "response" THEN found
                      ELSE Result("RequestException", NoMsg, NoResp,
                                  <<found.reqs[1], Req("idp", auth, FALSE, 0, NoHeader)>>,
                                  NoMsg, "none", auth, FALSE)
            params == render_options(pairs)
            scopes == IF HasKey(KeysOf(params), "scope")
                      THEN GetItem(params, "scope") ELSE << >>
            idp_headers == override_idp_header(headers.idp)
        IN
        /\ session_kwargs' = fetch_well_known_kwargs(get)
        /\ last' = Call("with_oidc", res)
        /\ IF res.outcome = "ok"
           THEN /\ challenge' = params
                /\ headers' = add_api_audience_if_set(
                                  params, [api |-> headers.api, idp |-> idp_headers])
                /\ oauth' = IF HasOfflineAccess(scopes)
                            THEN configure_token_refresh(NoOAuth, params)
                            ELSE NoOAuth
                /\ builders' = {"oidc"}
                /\ listeners' = listeners + 1
                /\ effect' = Effect("none", FALSE, FALSE, 1, wk)
           ELSE /\ headers' = [headers EXCEPT !.idp = idp_headers]
                /\ effect' = Effect("none", FALSE, FALSE, 0, wk)
                /\ UNCHANGED <<challenge, oauth, builders, listeners>>
        /\ UNCHANGED <<configured, auth, session, oauth_current, flags, flow,
                       passwords, idp, call, www_authenticate, parsed, mapping,
                       returned>>

\* OIDCSessionFactory.get_session_with_provided_token on the OAuth2Session o:
\* the tokens that are not None are set on the session, nothing is sent and
\* nothing is raised
get_session_with_provided_token(o, refresh_token, access_token) ==
    LET seeded == IF access_token # None THEN [o EXCEPT !.access = access_token]
                  ELSE o
    IN  IF refresh_token # None THEN [seeded EXCEPT !.refresh = refresh_token]
        ELSE seeded

\* OIDCSessionBuilder.with_token(refresh_token) on the builder of a session
\* factory; the caller hands a token, or None
OIDCSessionBuilder_with_token ==
    /\ "oidc" \in builders
    /\ \E refresh_token \in Tokens \cup {None} :
        /\ oauth' = get_session_with_provided_token(oauth, refresh_token, None)
        /\ call' = [token_name |-> None, refresh_token |-> refresh_token]
        /\ UseOAuthSession("with_token", Effect("oidc", FALSE, FALSE, 0, {}))
        /\ UNCHANGED <<passwords, idp, challenge, headers, www_authenticate, parsed,
                       session_kwargs, mapping>>

\* the keyring read of with_stored_token, under the default service name
\* whatever token_name is
read_stored_token_default_name(store, token_name, api_url) ==
    [refresh_token |-> store[<<"ansys-openapi-common-oidc", api_url>>],
     store |-> store]

\* the keyring read of with_stored_token, with the entry deleted once read
read_stored_token_once(store, token_name, api_url) ==
    [refresh_token |-> store[<<token_name, api_url>>],
     store |-> [store EXCEPT ![<<token_name, api_url>>] = None]]

\* `keyring.get_password(token_name, self._client_factory._api_url)` in
\* with_stored_token: the password found (None when there is no entry) and the
\* keyring afterwards
read_stored_token(store, token_name, api_url) ==
    [refresh_token |-> store[<<token_name, api_url>>], store |-> store]

\* OIDCSessionBuilder.with_stored_token(token_name) on the builder of a
\* session factory
OIDCSessionBuilder_with_stored_token ==
    /\ "oidc" \in builders
    /\ \E token_name \in TokenNames :
        LET read == read_stored_token(passwords, token_name, "api_url") IN
        /\ passwords' = read.store
        /\ call' = [token_name |-> token_name, refresh_token |-> read.refresh_token]
        /\ IF read.refresh_token = None
           THEN /\ Raise("with_stored_token", "ValueError", MsgNoStored,
                         Effect("oidc", TRUE, FALSE, 0, {}))
                /\ oauth' = oauth
           ELSE /\ oauth' = get_session_with_provided_token(
                                oauth, read.refresh_token, None)
                /\ UseOAuthSession("with_stored_token",
                                   Effect("oidc", TRUE, FALSE, 0, {}))
        /\ UNCHANGED <<idp, challenge, headers, www_authenticate, parsed,
                       session_kwargs, mapping>>

\* OAuth2Session.request: the token is added to a request only when
\* self.token is not empty; the refresh token alone sends nothing
oauth_authorization(o) == IF o.access = None THEN "none" ELSE "bearer"

\* a request through the client connect() returns, whose rest_client is the
\* session of the factory: ApiClient.request hands the response to
\* handle_response, which raises ApiException unless the status is 2xx
ApiClient_request ==
    /\ validate_builder(configured) = "ok"
    /\ session = "oauth"
    /\ \E s \in {200, 401} :
        LET sent == Req("api", oauth_authorization(oauth), FALSE, s, NoHeader) IN
        last' = IF Is2xx(s)
                THEN Call("request", Result("ok", NoMsg, NoResp, <<sent>>, NoMsg,
                                            "none", auth, FALSE))
                ELSE Call("request", Result("ApiException", NoMsg, Resp(1, s),
                                            <<sent>>, NoMsg, "none", auth, FALSE))
    /\ effect' = NoEffect
    /\ UNCHANGED <<configured, auth, session, builders, oauth_current, listeners,
                   flags, elsewhere, flow, returned>>

\* a factory just constructed, on a host with the OpenID Connect extras, with
\* the keyring, the identity provider and the header sets of the run
TokenInit ==
    /\ configured = FALSE
    /\ auth = "none"
    /\ session = "requests"
    /\ builders = {}
    /\ oauth_current = FALSE
    /\ listeners = 0
    /\ effect = NoEffect
    /\ flow = Idle
    /\ platform_windows = FALSE
    /\ linux_kerberos_enabled = TRUE
    /\ oidc_enabled = TRUE
    /\ passwords \in Keyrings
    /\ idp \in {"reject", "accept", "rotate"}
    /\ oauth = NoOAuth
    /\ challenge = {}
    /\ headers \in [api : ApiHeaders, idp : IdpHeaders]
    /\ call = NoCall
    /\ www_authenticate = << >>
    /\ parsed = NotParsed
    /\ session_kwargs = "api"
    /\ mapping = NoMapping
    /\ last = Call("__init__", Result("ok", NoMsg, NoResp, << >>, NoMsg, "none",
                                      "none", FALSE))
    /\ returned = {}

TokenNext ==
    \/ OIDCSessionFactory_init
    \/ OIDCSessionBuilder_with_token
    \/ OIDCSessionBuilder_with_stored_token
    \/ connect
    \/ ApiClient_request

TokenSpec == TokenInit /\ [][TokenNext]_vars

(* ---------------- the WWW-Authenticate header ---------------- *)

\* A header is the sequence of its characters, each a string of one character
\* (the pound sign and the backtick are written by name; the headers of the
\* runs hold no tab).  An expression of the grammar is an operator on the
\* header s and a location loc in it; it answers whether it matched, the
\* location after the match and the tokens of the match, as
\* ParserElement._parse does.

Pound == "pound"

Backtick == "backtick"

nums == {"0", "1", "2", "3", "4", "5", "6", "7", "8", "9"}

alphas ==
    {"a", "b", "c", "d", "e", "f", "g", "h", "i", "j", "k", "l", "m", "n", "o",
     "p", "q", "r", "s", "t", "u", "v", "w", "x", "y", "z",
     "A", "B", "C", "D", "E", "F", "G", "H", "I", "J", "K", "L", "M", "N", "O",
     "P", "Q", "R", "S", "T", "U", "V", "W", "X", "Y", "Z"}

hexnums == nums \cup {"a", "b", "c", "d", "e", "f", "A", "B", "C", "D", "E", "F"}

token_char ==
    {"!", "#", "$", "%", "&", "'", "*", "+", "-", ".", "^", "_", Backtick, "|", "~"}
        \cup nums \cup alphas

token68_char == {"-", ".", "_", "~", "+", "/"} \cup nums \cup alphas

\* str.lower
str_lower(s) ==
    [i \in 1..Len(s) |->
        CASE s[i] = "A" -> "a" [] s[i] = "B" -> "b" [] s[i] = "C" -> "c"
          [] s[i] = "D" -> "d" [] s[i] = "E" -> "e" [] s[i] = "F" -> "f"
          [] s[i] = "G" -> "g" [] s[i] = "H" -> "h" [] s[i] = "I" -> "i"
          [] s[i] = "J" -> "j" [] s[i] = "K" -> "k" [] s[i] = "L" -> "l"
          [] s[i] = "M" -> "m" [] s[i] = "N" -> "n" [] s[i] = "O" -> "o"
          [] s[i] = "P" -> "p" [] s[i] = "Q" -> "q" [] s[i] = "R" -> "r"
          [] s[i] = "S" -> "s" [] s[i] = "T" -> "t" [] s[i] = "U" -> "u"
          [] s[i] = "V" -> "v" [] s[i] = "W" -> "w" [] s[i] = "X" -> "x"
          [] s[i] = "Y" -> "y" [] s[i] = "Z" -> "z" [] OTHER -> s[i]]

\* a token of a match: a string, or the Group of a name and its value
Str(s) == [type |-> "str", value |-> s]

Group(n, v) == [type |-> "group", value |-> <<n, v>>]

\* the outcome of an expression: no match, or a match up to loc with its tokens
NoMatch == [ok |-> FALSE, loc |-> 0, toks |-> << >>]

Match(loc, toks) == [ok |-> TRUE, loc |-> loc, toks |-> toks]

\* the element of a set of one element: The({e : x \in {v}}) is e for x = v
The(S) == CHOOSE x \in S : TRUE

\* the first location from loc on whose character is not one of chars
RECURSIVE Span(_, _, _)
Span(s, loc, chars) ==
    IF loc <= Len(s) /\ s[loc] \in chars THEN Span(s, loc + 1, chars) ELSE loc

\* ParserElement.preParse: whitespace is skipped before an expression
preParse(s, loc) == Span(s, loc, {" ", "\n", "\t", "\r"})

\* pp.Word(init, body): after the whitespace, one character of init, then all
\* that follow of body
Word(s, loc, init, body) ==
    The({IF start <= Len(s) /\ s[start] \in init
         THEN The({Match(end, <<Str(SubSeq(s, start, end - 1))>>) :
                      end \in {Span(s, start + 1, body)}})
         ELSE NoMatch :
            start \in {preParse(s, loc)}})

\* pp.Suppress(lit): after the whitespace, the characters of lit, which leave
\* no token
Suppress(s, loc, lit) ==
    The({IF start + Len(lit) - 1 <= Len(s)
               /\ SubSeq(s, start, start + Len(lit) - 1) = lit
         THEN Match(start + Len(lit), << >>)
         ELSE NoMatch :
            start \in {preParse(s, loc)}})

\* token = pp.Word(token_char)
token(s, loc) == Word(s, loc, token_char, token_char)

\* a token68 without padding
token68_unpadded(s, loc) == Word(s, loc, token68_char, token68_char)

\* token68 = pp.Combine(pp.Word(token68_char) + pp.ZeroOrMore("=")): after the
\* whitespace, the word and the padding next to it, as one string
token68(s, loc) ==
    The({IF start <= Len(s) /\ s[start] \in token68_char
         THEN The({Match(end, <<Str(SubSeq(s, start, end - 1))>>) :
                      end \in {Span(s, Span(s, start + 1, token68_char), {"="})}})
         ELSE NoMatch :
            start \in {preParse(s, loc)}})

\* name = pp.Word(pp.alphas, pp.alphanums)
name(s, loc) == Word(s, loc, alphas, alphas \cup nums)

\* the regular expression of a quoted string after its opening quote q: other
\* characters, a doubled quote or an escape, as many as there are
RECURSIVE QuotedBody(_, _, _)
QuotedBody(s, loc, q) ==
    IF loc > Len(s) THEN loc
    ELSE IF s[loc] \notin {q, "\n", "\r", "\\"} THEN QuotedBody(s, loc + 1, q)
    ELSE IF s[loc] = q /\ loc + 1 <= Len(s) /\ s[loc + 1] = q
    THEN QuotedBody(s, loc + 2, q)
    ELSE IF s[loc] = "\\" /\ loc + 1 <= Len(s) /\ s[loc + 1] # "x"
    THEN QuotedBody(s, loc + 2, q)
    ELSE IF s[loc] = "\\" /\ loc + 2 <= Len(s) /\ s[loc + 1] = "x"
            /\ s[loc + 2] \in hexnums
    THEN QuotedBody(s, Span(s, loc + 2, hexnums), q)
    ELSE loc

\* a string in quotes q from start on: the regular expression, then the
\* closing quote
QuotedWith(s, start, q) ==
    IF start <= Len(s) /\ s[start] = q
    THEN The({IF close <= Len(s) /\ s[close] = q
              THEN Match(close + 1, <<Str(SubSeq(s, start, close))>>)
              ELSE NoMatch :
                 close \in {QuotedBody(s, start + 1, q)}})
    ELSE NoMatch

\* pp.quotedString: after the whitespace, a string in double quotes, or else
\* one in single quotes
quotedString(s, loc) ==
    The({The({IF double.ok THEN double ELSE QuotedWith(s, start, "'") :
                 double \in {QuotedWith(s, start, "\"")}}) :
            start \in {preParse(s, loc)}})

\* pp.removeQuotes: the string without its first and last character
removeQuotes(t) == SubSeq(t, 2, Len(t) - 1)

\* value = pp.quotedString.setParseAction(pp.removeQuotes)
value(s, loc) ==
    The({IF quoted.ok
         THEN Match(quoted.loc, <<Str(removeQuotes(quoted.toks[1].value))>>)
         ELSE NoMatch :
            quoted \in {quotedString(s, loc)}})

\* a name_value_pair that takes a name no "=" follows for a parameter
\* without a value
name_value_pair_bare(s, loc) ==
    The({IF ~n.ok THEN NoMatch
         ELSE The({IF ~eq.ok THEN Match(n.loc, <<Group(n.toks[1].value, << >>)>>)
                   ELSE The({IF ~v.ok THEN NoMatch
                             ELSE Match(v.loc, <<Group(n.toks[1].value,
                                                       v.toks[1].value)>>) :
                                v \in {value(s, eq.loc)}}) :
                      eq \in {Suppress(s, n.loc, <<"=">>)}}) :
            n \in {name(s, loc)}})

\* name_value_pair = name + pp.Suppress("=") + value, in a pp.Group
name_value_pair(s, loc) ==
    The({IF ~n.ok THEN NoMatch
         ELSE The({IF ~eq.ok THEN NoMatch
                   ELSE The({IF ~v.ok THEN NoMatch
                             ELSE Match(v.loc, <<Group(n.toks[1].value,
                                                       v.toks[1].value)>>) :
                                v \in {value(s, eq.loc)}}) :
                      eq \in {Suppress(s, n.loc, <<"=">>)}}) :
            n \in {name(s, loc)}})

\* the ZeroOrMore of pp.delimitedList(pp.Group(name_value_pair)): a comma and
\* a pair, as often as both match; toks are the pairs up to loc
RECURSIVE more_pairs(_, _, _)
more_pairs(s, loc, toks) ==
    The({IF ~delim.ok THEN Match(loc, toks)
         ELSE The({IF ~pair.ok THEN Match(loc, toks)
                   ELSE more_pairs(s, pair.loc, toks \o pair.toks) :
                      pair \in {name_value_pair(s, delim.loc)}}) :
            delim \in {Suppress(s, loc, <<",">>)}})

\* params = pp.Dict(pp.delimitedList(pp.Group(name_value_pair)))
params(s, loc) ==
    The({IF ~first.ok THEN NoMatch ELSE more_pairs(s, first.loc, first.toks) :
            first \in {name_value_pair(s, loc)}})

\* a ^ b (pp.Or): the alternative that matches the most, the first when both
\* match as much
Or(a, b) == IF a.ok /\ (~b.ok \/ a.loc >= b.loc) THEN a ELSE b

\* credentials = token + (params ^ token68) ^ token
credentials(s, loc) ==
    The({IF ~scheme.ok THEN NoMatch
         ELSE The({Or(IF options.ok
                      THEN Match(options.loc, scheme.toks \o options.toks)
                      ELSE NoMatch,
                      scheme) :
                      options \in {Or(params(s, scheme.loc),
                                      token68(s, scheme.loc))}}) :
            scheme \in {token(s, loc)}})

\* the ZeroOrMore of pp.delimitedList(credentials("schemes*"), delim=", "):
\* schemes collects the tokens of each credentials matched
RECURSIVE more_credentials(_, _, _)
more_credentials(s, loc, schemes) ==
    The({IF ~delim.ok THEN Match(loc, schemes)
         ELSE The({IF ~next.ok THEN Match(loc, schemes)
                   ELSE more_credentials(s, next.loc, Append(schemes, next.toks)) :
                      next \in {credentials(s, delim.loc)}}) :
            delim \in {Suppress(s, loc, <<",", " ">>)}})

\* self.auth_parser
auth_parser(s, loc) ==
    The({IF ~first.ok THEN NoMatch
         ELSE more_credentials(s, first.loc, <<first.toks>>) :
            first \in {credentials(s, loc)}})

\* parseString(value) without parseAll: what is matched from the start
parseString_partial(s) == auth_parser(s, 1)

\* self.auth_parser.parseString(value, parseAll=True): the match is of the
\* whole string, up to whitespace at its end
parseString(s) ==
    The({IF result.ok /\ preParse(s, result.loc) > Len(s) THEN result
         ELSE NoMatch :
            result \in {auth_parser(s, 1)}})

\* what a scheme is mapped to: None, a string, or a dictionary
NoOptions == [type |-> "None", value |-> << >>]

\* CaseInsensitiveOrderedDict.__setitem__ on a dictionary kept as the sequence
\* of its items: the key in lower case keeps its place when it is there
RECURSIVE setitem(_, _, _)
setitem(d, k, v) ==
    IF d = << >> THEN <<<<str_lower(k), v>>>>
    ELSE IF d[1][1] = str_lower(k) THEN <<<<d[1][1], v>>>> \o Tail(d)
    ELSE <<d[1]>> \o setitem(Tail(d), k, v)

\* CaseInsensitiveOrderedDict(pairs) for d empty, and d.update(pairs): the
\* pairs of a key and a value are set in their order
RECURSIVE from_pairs(_, _)
from_pairs(d, pairs) ==
    IF pairs = << >> THEN d
    ELSE from_pairs(setitem(d, pairs[1][1], pairs[1][2]), Tail(pairs))

\* AuthenticateHeaderParser._render_options
render_scheme_options(scheme) ==
    IF Len(scheme) = 1 THEN NoOptions
    ELSE IF scheme[2].type = "str" THEN scheme[2]
    ELSE [type |-> "dict",
          value |-> from_pairs(<< >>, [i \in 1..(Len(scheme) - 1) |-> scheme[i + 1].value])]

\* the loop of parse_header over parsed_value.schemes
RECURSIVE render_schemes(_, _)
render_schemes(output, schemes) ==
    IF schemes = << >> THEN output
    ELSE render_schemes(
             setitem(output, schemes[1][1].value, render_scheme_options(schemes[1])),
             Tail(schemes))

\* AuthenticateHeaderParser.parse_header (and parse_authenticate, which calls
\* it): the dictionary, or the ValueError raised for a ParseException
parse_header(s) ==
    The({IF ~parsed_value.ok
         THEN [outcome |-> "ValueError", msg |-> MsgParse, value |-> << >>]
         ELSE [outcome |-> "ok", msg |-> NoMsg,
               value |-> render_schemes(<< >>, parsed_value.toks)] :
            parsed_value \in {parseString(s)}})

(* ---------------- the headers parsed ---------------- *)

\* the challenges of the tests of parse_authenticate, each with the entry the
\* tests expect of it: the scheme in lower case and None, or the dictionary
\* of its parameters
\* a bare scheme
Negotiate ==
    [text |->
        <<"N", "e", "g", "o", "t", "i", "a", "t", "e">>,
     scheme |-> <<"n", "e", "g", "o", "t", "i", "a", "t", "e">>,
     options |->
         NoOptions]

\* Bearer with one parameter
BearerRealm ==
    [text |->
        <<"B", "e", "a", "r", "e", "r", " ", "r", "e", "a", "l", "m", "=",
          "\"", "e", "x", "a", "m", "p", "l", "e", ".", "c", "o", "m", "\"">>,
     scheme |-> <<"b", "e", "a", "r", "e", "r">>,
     options |->
         [type |-> "dict",
         value |->
             <<<<<<"r", "e", "a", "l", "m">>,
                 <<"e", "x", "a", "m", "p", "l", "e", ".", "c", "o", "m">>>>>>]]

\* Bearer with two parameters
BearerError ==
    [text |->
        <<"B", "e", "a", "r", "e", "r", " ", "e", "r", "r", "o", "r", "=",
          "\"", "i", "n", "v", "a", "l", "i", "d", "_", "t", "o", "k", "e",
          "n", "\"", ",", " ", "u", "r", "l", "=", "\"", "l", "o", "c", "a",
          "l", "h", "o", "s", "t", ":", "2", "3", "1", "4", "\"">>,
     scheme |-> <<"b", "e", "a", "r", "e", "r">>,
     options |->
         [type |-> "dict",
         value |->
             <<<<<<"e", "r", "r", "o", "r">>,
                 <<"i", "n", "v", "a", "l", "i", "d", "_", "t", "o", "k", "e", "n">>>>,
               <<<<"u", "r", "l">>,
                 <<"l", "o", "c", "a", "l", "h", "o", "s", "t", ":", "2", "3", "1", "4">>>>>>]]

\* Digest, whose qop holds a comma
Digest ==
    [text |->
        <<"D", "i", "g", "e", "s", "t", " ", "r", "e", "a", "l", "m", "=",
          "\"", "e", "x", "a", "m", "p", "l", "e", ".", "c", "o", "m", "\"",
          ",", " ", "q", "o", "p", "=", "\"", "a", "u", "t", "h", ",", "a",
          "u", "t", "h", "-", "i", "n", "t", "\"", ",", " ", "n", "o", "n",
          "c", "e", "=", "\"", "a", "b", "c", "d", "e", "f", "\"", ",", " ",
          "o", "p", "a", "q", "u", "e", "=", "\"", "g", "h", "i", "j", "k",
          "l", "\"">>,
     scheme |-> <<"d", "i", "g", "e", "s", "t">>,
     options |->
         [type |-> "dict",
         value |->
             <<<<<<"r", "e", "a", "l", "m">>,
                 <<"e", "x", "a", "m", "p", "l", "e", ".", "c", "o", "m">>>>,
               <<<<"q", "o", "p">>,
                 <<"a", "u", "t", "h", ",", "a", "u", "t", "h", "-", "i", "n", "t">>>>,
               <<<<"n", "o", "n", "c", "e">>,
                 <<"a", "b", "c", "d", "e", "f">>>>,
               <<<<"o", "p", "a", "q", "u", "e">>,
                 <<"g", "h", "i", "j", "k", "l">>>>>>]]

challenges == <<Negotiate, BearerRealm, BearerError, Digest>>

\* the header of test_invalid_header_character
InvalidCharacter ==
    <<"B", "e", "a", "r", "e", "r", " ", "c", "o", "s", "t", "=", "(", Pound,
      "3", "5", ")">>

\* the header of test_invalid_header_malformed
MalformedPair ==
    <<"B", "e", "a", "r", "e", "r", " ", "c", "o", "s", "t", "=", "3", "5",
      "=", "1", "2">>

\* the headers of the tests of several challenges: up to MaxChallenges
\* challenges, no one twice, in any order (an order is the sequence of their
\* places in `challenges`)
MaxChallenges == 3

Orders ==
    {o \in UNION {[1..n -> 1..Len(challenges)] : n \in 1..MaxChallenges} :
        \A i, j \in DOMAIN o : i # j => o[i] # o[j]}

\* ", ".join(texts)
RECURSIVE Join(_)
Join(texts) ==
    IF Len(texts) = 1 THEN texts[1]
    ELSE texts[1] \o <<",", " ">> \o Join(Tail(texts))

HeaderOf(o) == Join([i \in DOMAIN o |-> challenges[o[i]].text])

\* the headers of the tests of Negotiate with a token: the token with up to
\* MaxPadding "=" after it
MaxPadding == 2

\* the token of negotiate_challenges_with_tokens with n "=" after it
PaddedToken(n) == <<"a", "b", "c", "d", "e", "f">> \o [i \in 1..n |-> "="]

NegotiateWith(n) == Negotiate.text \o <<" ">> \o PaddedToken(n)

TokenHeaders == {NegotiateWith(n) : n \in 0..MaxPadding}

\* the headers that are well formed: one or two challenges, or Negotiate and
\* its token; and the places of such a header that are not inside a quoted
\* string (place p is before the character p, or at the end)
WellFormed == {HeaderOf(o) : o \in {x \in Orders : Len(x) <= 2}} \cup TokenHeaders

Places(s) ==
    {p \in 1..(Len(s) + 1) : Cardinality({i \in 1..(p - 1) : s[i] = "\""}) % 2 = 0}

\* a well-formed header with one character that is in no alphabet of the
\* grammar outside its quoted strings
WithOutsideChar ==
    UNION {{SubSeq(s, 1, p - 1) \o <<c>> \o SubSeq(s, p, Len(s)) :
               p \in Places(s), c \in {"(", Pound}} : s \in WellFormed}

\* a well-formed header with one of its quotes left out
Unterminated ==
    UNION {{SubSeq(s, 1, p - 1) \o SubSeq(s, p + 1, Len(s)) :
               p \in {i \in DOMAIN s : s[i] = "\""}} : s \in WellFormed}

\* a well-formed header with a stray "=" outside its quoted strings, where
\* it would not be more padding of a token68
WithStrayEquals ==
    UNION {{SubSeq(s, 1, p - 1) \o <<"=">> \o SubSeq(s, p, Len(s)) :
               p \in {q \in Places(s) :
                         s \in TokenHeaders
                             => q <= Len(Negotiate.text) + 1 + Len(PaddedToken(0))}} :
              s \in WellFormed}

MalformedHeaders ==
    WithOutsideChar \cup Unterminated \cup WithStrayEquals
        \cup {InvalidCharacter, MalformedPair}

\* the WWW-Authenticate headers of the runs
AuthenticateHeaders ==
    {HeaderOf(o) : o \in Orders} \cup TokenHeaders \cup MalformedHeaders

(* ---------------- parsing the header of a response ---------------- *)

\* the name of a scheme of the dictionary, as the builder steps look it up
SchemeName(k) ==
    CASE k = Negotiate.scheme   -> "negotiate"
      [] k = BearerRealm.scheme -> "bearer"
      [] k = Digest.scheme      -> "digest"
      [] OTHER                  -> "other"

\* what ApiClientFactory.__get_authenticate_header hands to a builder step
\* for the outcome of parse_authenticate on the header of the response: the
\* ValueError, or the schemes of the dictionary
authenticate_header(result) ==
    IF result.outcome = "ValueError" THEN Malformed
    ELSE [kind |-> "challenges",
          schemes |-> {SchemeName(result.value[i][1]) : i \in DOMAIN result.value},
          bearer |-> {}, token68 |-> FALSE]

\* parse_authenticate(value), called on the header of the run
AuthenticateHeaderParser_parse_header ==
    /\ parsed' = parse_header(www_authenticate)
    /\ UNCHANGED <<configured, auth, session, builders, oauth_current, listeners,
                   effect, flags, passwords, idp, oauth, challenge, headers, call,
                   www_authenticate, session_kwargs, mapping, flow, last, returned>>

\* ApiClientFactory.with_autologon against a server that answers the probe
\* 401 with the header of the run
ApiClientFactory_with_autologon ==
    \E result \in {parse_header(www_authenticate)} :
    \E hdr \in {authenticate_header(result)} :
    \E vs \in IF autologon_step(auth, platform_windows \/ linux_kerberos_enabled,
                                 401, hdr, 200).attached # "none"
               THEN Statuses ELSE {200} :
    \E res \in {autologon_step(auth, platform_windows \/ linux_kerberos_enabled,
                                401, hdr, vs)} :
        /\ Apply("with_autologon", res)
        /\ parsed' = result
        /\ UNCHANGED <<session, builders, oauth_current, listeners, flags,
                       passwords, idp, oauth, challenge, headers, call,
                       www_authenticate, session_kwargs, mapping, flow>>

\* a factory just constructed, and a server whose 401 carries one of the
\* headers of the runs
ParseInit ==
    /\ configured = FALSE
    /\ auth = "none"
    /\ session = "requests"
    /\ builders = {}
    /\ oauth_current = FALSE
    /\ listeners = 0
    /\ effect = NoEffect
    /\ flow = Idle
    /\ platform_windows = FALSE
    /\ linux_kerberos_enabled = TRUE
    /\ oidc_enabled = TRUE
    /\ passwords = NoKeyring
    /\ idp = "accept"
    /\ oauth = NoOAuth
    /\ challenge = {}
    /\ headers = [api |-> NoHeaders, idp |-> NoHeaders]
    /\ call = NoCall
    /\ www_authenticate \in AuthenticateHeaders
    /\ parsed = NotParsed
    /\ session_kwargs = "api"
    /\ mapping = NoMapping
    /\ last = Call("__init__", Result("ok", NoMsg, NoResp, << >>, NoMsg, "none",
                                      "none", FALSE))
    /\ returned = {}

ParseNext ==
    \/ AuthenticateHeaderParser_parse_header
    \/ ApiClientFactory_with_autologon

ParseSpec == ParseInit /\ [][ParseNext]_vars

(* ---------------- CaseInsensitiveOrderedDict ---------------- *)

\* the keys of the runs: those of the dictionary of
\* TestCaseInsensitiveOrderedDict, one of them spelled in two ways
DictKeys == {<<"f", "o", "o">>, <<"F", "o", "O">>, <<"B", "a", "Z">>}

\* the values of the runs
DictValues == {"bar", "qux"}

\* a mapping handed to CaseInsensitiveOrderedDict(mapping) and to update: the
\* items of a dict of up to two keys, in their order
DictItems ==
    {items \in UNION {[1..n -> DictKeys \X DictValues] : n \in 0..2} :
        \A i, j \in DOMAIN items : i # j => items[i][1] # items[j][1]}

\* the value of the parameter v of pop when the caller gives none: the object
\* made when the class is defined
NotGiven == "object()"

\* the items that super() finds under k.lower(): one, or none
lookup(d, k) == {d[i] : i \in {j \in DOMAIN d : d[j][1] = str_lower(k)}}

\* a call of a method on the dictionary: what it was called with, what it
\* raised or returned, and the items of the dictionary after it
DictCall(op, k, given, outcome, result, d) ==
    [dict |-> d, op |-> op, key |-> k, given |-> given, outcome |-> outcome,
     result |-> result]

\* what a method of the dictionary leaves alone
factory == <<configured, auth, session, builders, oauth_current, listeners,
             effect, flags, passwords, idp, oauth, challenge, headers, call,
             www_authenticate, parsed, session_kwargs, flow, last, returned>>

\* d[k]
CaseInsensitiveOrderedDict_getitem ==
    \E k \in DictKeys : \E found \in {lookup(mapping.dict, k)} :
        /\ mapping' =
            IF found = {}
            THEN DictCall("__getitem__", k, None, "KeyError", None, mapping.dict)
            ELSE DictCall("__getitem__", k, None, "ok", The(found)[2], mapping.dict)
        /\ UNCHANGED factory

\* d[k] = v
CaseInsensitiveOrderedDict_setitem ==
    \E k \in DictKeys, v \in DictValues :
        /\ mapping' =
            DictCall("__setitem__", k, v, "ok", None, setitem(mapping.dict, k, v))
        /\ UNCHANGED factory

\* del d[k]
CaseInsensitiveOrderedDict_delitem ==
    \E k \in DictKeys : \E found \in {lookup(mapping.dict, k)} :
        /\ mapping' =
            IF found = {}
            THEN DictCall("__delitem__", k, None, "KeyError", None, mapping.dict)
            ELSE DictCall("__delitem__", k, None, "ok", None,
                          SelectSeq(mapping.dict, LAMBDA p : p \notin found))
        /\ UNCHANGED factory

\* d.get(k, default); default is None when the caller gives none
CaseInsensitiveOrderedDict_get ==
    \E k \in DictKeys, default \in DictValues \cup {None} :
    \E found \in {lookup(mapping.dict, k)} :
        /\ mapping' =
            DictCall("get", k, default, "ok",
                     IF found = {} THEN default ELSE The(found)[2], mapping.dict)
        /\ UNCHANGED factory

\* d.setdefault(k, default); default is None when the caller gives none
CaseInsensitiveOrderedDict_setdefault ==
    \E k \in DictKeys, default \in DictValues \cup {None} :
    \E found \in {lookup(mapping.dict, k)} :
        /\ mapping' =
            IF found = {}
            THEN DictCall("setdefault", k, default, "ok", default,
                          Append(mapping.dict, <<str_lower(k), default>>))
            ELSE DictCall("setdefault", k, default, "ok", The(found)[2], mapping.dict)
        /\ UNCHANGED factory

\* d.pop(k, v), and d.pop(k) where v is NotGiven: `v is object()` compares v
\* with an object made for the comparison, which no v is, so that
\* super().pop(k.lower(), v) is what runs in both
CaseInsensitiveOrderedDict_pop ==
    \E k \in DictKeys, v \in DictValues \cup {NotGiven} :
    \E found \in {lookup(mapping.dict, k)} :
        /\ mapping' =
            IF found = {}
            THEN DictCall("pop", k, v, "ok", v, mapping.dict)
            ELSE DictCall("pop", k, v, "ok", The(found)[2],
                          SelectSeq(mapping.dict, LAMBDA p : p \notin found))
        /\ UNCHANGED factory

\* d.update(mapping)
CaseInsensitiveOrderedDict_update ==
    \E items \in DictItems :
        /\ mapping' =
            DictCall("update", None, items, "ok", None, from_pairs(mapping.dict, items))
        /\ UNCHANGED factory

\* k in d
CaseInsensitiveOrderedDict_contains ==
    \E k \in DictKeys :
        /\ mapping' =
            DictCall("__contains__", k, None, "ok", lookup(mapping.dict, k) # {},
                     mapping.dict)
        /\ UNCHANGED factory

\* d.copy(): type(self)(self)
CaseInsensitiveOrderedDict_copy ==
    /\ mapping' =
        DictCall("copy", None, None, "ok", from_pairs(<< >>, mapping.dict), mapping.dict)
    /\ UNCHANGED factory

\* CaseInsensitiveOrderedDict.fromkeys(keys, v) for up to two keys; v is None
\* when the caller gives none
CaseInsensitiveOrderedDict_fromkeys ==
    \E keys \in UNION {[1..n -> DictKeys] : n \in 0..2}, v \in DictValues \cup {None} :
        /\ mapping' =
            DictCall("fromkeys", keys, v, "ok",
                     from_pairs(<< >>, [i \in DOMAIN keys |-> <<str_lower(keys[i]), v>>]),
                     mapping.dict)
        /\ UNCHANGED factory

\* a dictionary made from a mapping, next to a factory just constructed
DictInit ==
    /\ configured = FALSE
    /\ auth = "none"
    /\ session = "requests"
    /\ builders = {}
    /\ oauth_current = FALSE
    /\ listeners = 0
    /\ effect = NoEffect
    /\ flow = Idle
    /\ platform_windows = FALSE
    /\ linux_kerberos_enabled = TRUE
    /\ oidc_enabled = TRUE
    /\ passwords = NoKeyring
    /\ idp = "accept"
    /\ oauth = NoOAuth
    /\ challenge = {}
    /\ headers = [api |-> NoHeaders, idp |-> NoHeaders]
    /\ call = NoCall
    /\ www_authenticate = Negotiate.text
    /\ parsed = NotParsed
    /\ session_kwargs = "api"
    /\ mapping \in {[dict |-> from_pairs(<< >>, items), op |-> "__init__",
                     key |-> None, given |-> items, outcome |-> "ok",
                     result |-> None] : items \in DictItems}
    /\ last = Call("__init__", Result("ok", NoMsg, NoResp, << >>, NoMsg, "none",
                                      "none", FALSE))
    /\ returned = {}

DictNext ==
    \/ CaseInsensitiveOrderedDict_getitem
    \/ CaseInsensitiveOrderedDict_setitem
    \/ CaseInsensitiveOrderedDict_delitem
    \/ CaseInsensitiveOrderedDict_get
    \/ CaseInsensitiveOrderedDict_setdefault
    \/ CaseInsensitiveOrderedDict_pop
    \/ CaseInsensitiveOrderedDict_update
    \/ CaseInsensitiveOrderedDict_contains
    \/ CaseInsensitiveOrderedDict_copy
    \/ CaseInsensitiveOrderedDict_fromkeys

DictSpec == DictInit /\ [][DictNext]_vars

(* ---------------- the properties ---------------- *)

\* the steps of the factory that begin with a probe of the API server
ProbingSteps == {"with_anonymous", "with_credentials", "with_autologon", "with_oidc"}

CredentialSteps == {"with_credentials", "with_autologon"}

\* the call has sent its probe
Probed == Len(last.reqs) >= 1

\* a 2xx status, as the specification words it
Success(s) == s \in 200..299

\* the header names scheme k, whatever the case of its letters
Offers(hdr, k) ==
    hdr.kind = "challenges" /\ \E spelled \in hdr.schemes : Lower(spelled) = Lower(k)

\* the probe of the last call was answered 401 with a header that parses
Challenged == Probed /\ last.reqs[1].status = 401 /\ last.reqs[1].header.kind = "challenges"

\* an ApiConnectionException that carries the n-th response of the call
RaisedWithResponse(n) ==
    /\ last.outcome = "ApiConnectionException"
    /\ last.resp = [n |-> n, status |-> last.reqs[n].status,
                    reason |-> ReasonOf(last.reqs[n].status)]

\* C1, as stated: connect() raises ValueError (its message mentions
\* authentication) unless with_anonymous, with_credentials, with_autologon or
\* a method of the OIDC builder has returned normally before.
C1_ConnectNeedsListedStep ==
    (last.op = "connect" /\ "step" \notin returned)
        => (last.outcome = "ValueError" /\ Contains(last.msg, <<"authentication">>))

\* C1, amended: connect() raises ValueError (its message mentions
\* authentication) unless one of those calls, or with_oidc on a probe answered
\* 2xx, has returned normally before; so it raises on a fresh factory and on
\* one where only with_oidc against a 401 server has returned.
C1_ConnectNeedsAuthentication ==
    (last.op = "connect" /\ returned = {})
        => (last.outcome = "ValueError" /\ Contains(last.msg, <<"authentication">>))

C1_Witness ==
    /\ last.op = "connect"
    /\ last.outcome = "ValueError"
    /\ returned = {}
    /\ "oidc" \in builders

\* C2: a probe answered neither 2xx nor 401 (for with_anonymous: not 2xx)
\* raises ApiConnectionException carrying that response; the call sends no
\* further request and does not set _configured.
C2_ProbeErrorRaises ==
    (/\ last.op \in ProbingSteps
     /\ Probed
     /\ ~Success(last.reqs[1].status)
     /\ (last.reqs[1].status # 401 \/ last.op = "with_anonymous"))
        => (RaisedWithResponse(1) /\ Len(last.reqs) = 1 /\ ~last.conf)

C2_Witness ==
    /\ last.op = "with_credentials"
    /\ last.reqs[1].status = 403
    /\ last.outcome = "ApiConnectionException"
    /\ last.resp.reason = "Forbidden"

\* C3: when the probe of with_credentials or with_autologon is answered 2xx
\* the call succeeds anonymously: one request, a warning that mentions
\* "anonymous", the factory configured, and no authenticator on the session.
C3_AnonymousDespiteCredentials ==
    (last.op \in CredentialSteps /\ Probed /\ Success(last.reqs[1].status))
        => (/\ last.outcome = "ok"
            /\ Len(last.reqs) = 1
            /\ Contains(last.warning, <<"anonymous">>)
            /\ configured
            /\ last.attached = "none"
            /\ auth = "none")

\* C4: the probe of every authentication step is sent without credentials,
\* whatever steps came before on the factory.
C4_ProbeWithoutCredentials ==
    (last.op \in ProbingSteps /\ Probed) => last.reqs[1].auth = "none"

PreferredScheme(hdr) ==
    IF platform_windows /\ (Offers(hdr, "Negotiate") \/ Offers(hdr, "NTLM")) THEN "ntlm"
    ELSE IF Offers(hdr, "Basic") THEN "basic"
    ELSE "none"

\* C6: the scheme with_credentials attempts is a function of the platform
\* and the offered schemes (NTLM on Windows when Negotiate or NTLM is offered,
\* otherwise Basic when offered; Negotiate and NTLM offers are ignored off
\* Windows); at most one scheme is attempted, also when its validation
\* fails, so the call sends at most two requests.
C6_OneDeterministicScheme ==
    last.op = "with_credentials" =>
        /\ Len(last.reqs) <= 2
        /\ Challenged =>
              /\ last.attached = PreferredScheme(last.reqs[1].header)
              /\ \A i \in 2..Len(last.reqs) :
                    last.reqs[i].auth = PreferredScheme(last.reqs[1].header)
              /\ Len(last.reqs) = (IF last.attached = "none" THEN 1 ELSE 2)

C6_Witness ==
    /\ last.op = "with_credentials"
    /\ platform_windows
    /\ last.reqs[1].header.schemes = {"Negotiate", "BASIC"}
    /\ last.outcome = "ApiConnectionException"
    /\ Len(last.reqs) = 2
    /\ last.reqs[2].auth = "ntlm"

\* C7: with_credentials raises ConnectionError ("Unable to connect with
\* credentials") when the 401 challenges name no scheme it supports on the
\* host; no validation request is sent and _configured is not set.
C7_NoSupportedScheme ==
    (last.op = "with_credentials" /\ Challenged
       /\ PreferredScheme(last.reqs[1].header) = "none")
        => (/\ last.outcome = "ConnectionError"
            /\ Contains(last.msg, <<"Unable", "to", "connect", "with", "credentials">>)
            /\ Len(last.reqs) = 1
            /\ ~last.conf)

C7_Witness ==
    /\ last.op = "with_credentials"
    /\ last.reqs[1].header.schemes = {"Bearer"}
    /\ last.outcome = "ConnectionError"

\* the last call sent a validation request and it was not answered 2xx
ValidationFailed ==
    last.op \in CredentialSteps /\ Len(last.reqs) = 2 /\ ~Success(last.reqs[2].status)

\* C8: when the validation request of with_credentials or with_autologon is
\* answered with a non-2xx status the call raises ApiConnectionException
\* carrying that response and does not set _configured.
C8_ValidationFailureRaises ==
    ValidationFailed => (RaisedWithResponse(2) /\ ~last.conf)

C8_Witness ==
    /\ last.op = "with_autologon"
    /\ Len(last.reqs) = 2
    /\ last.reqs[2].status = 403
    /\ last.resp.status = 403
    /\ last.outcome = "ApiConnectionException"

\* the message of the ConnectionError the last step ends with
FailureMessage ==
    IF last.op = "with_credentials" THEN MsgCredentials ELSE MsgAutologon

\* C9, as stated: when the attempted scheme fails its validation the call
\* fails with ConnectionError "unable to connect with credentials"
\* (respectively "... with autologon").
C9_ValidationFailureIsConnectionError ==
    ValidationFailed => (last.outcome = "ConnectionError" /\ last.msg = FailureMessage)

\* C9, amended: when the attempted scheme fails its validation the call
\* fails with ApiConnectionException, not ConnectionError; the ConnectionError
\* "Unable to connect with credentials provided." (respectively "Unable to
\* connect with autologon.") is raised only when no scheme was attempted.
C9_ConnectionErrorOnlyWithoutAttempt ==
    last.op \in CredentialSteps =>
        /\ ValidationFailed => last.outcome = "ApiConnectionException"
        /\ last.outcome = "ConnectionError" =>
              (/\ Len(last.reqs) = 1
               /\ last.attached = "none"
               /\ last.msg = FailureMessage)

C9_Witness ==
    /\ last.op = "with_credentials"
    /\ Len(last.reqs) = 2
    /\ last.reqs[2].auth = "basic"
    /\ last.reqs[2].status = 401
    /\ last.outcome = "ApiConnectionException"

\* C10: with_autologon raises ConnectionError ("Unable to connect with
\* autologon") whenever the 401 challenges do not offer Negotiate; it attaches
\* no authenticator, sends no validation request and does not set
\* _configured.
C10_AutologonNeedsNegotiate ==
    (last.op = "with_autologon" /\ Challenged
       /\ ~Offers(last.reqs[1].header, "Negotiate"))
        => (/\ last.outcome = "ConnectionError"
            /\ Contains(last.msg, <<"Unable", "to", "connect", "with", "autologon">>)
            /\ last.attached = "none"
            /\ auth = last.reqs[1].auth
            /\ Len(last.reqs) = 1
            /\ ~last.conf)

C10_Witness ==
    /\ last.op = "with_autologon"
    /\ Probed
    /\ last.reqs[1].header.schemes = {"NTLM", "BASIC"}
    /\ last.outcome = "ConnectionError"

(* ---------------- OpenID Connect: the properties ---------------- *)

BuilderMethods == {"authorize", "with_token", "with_stored_token"}

\* the step is a call (the caller letting go of a builder is not one)
CallStep == builders \subseteq builders'

\* C11: when the probe of with_oidc is answered 2xx the call sends that one
\* request, warns and leaves the factory configured, without fetching a
\* well-known document or binding the callback port; authorize, with_token
\* and with_stored_token on the builder it returns hand back the factory with
\* no request sent, no read of the keyring, no browser opened and no port
\* bound, and change nothing on the factory.
C11_AnonymousBuilderDoesNothing ==
    [][CallStep =>
        /\ (last'.op = "with_oidc" /\ Len(last'.reqs) >= 1
              /\ Success(last'.reqs[1].status))
            => (/\ last'.outcome = "ok"
                /\ Len(last'.reqs) = 1
                /\ Contains(last'.warning, <<"anonymous">>)
                /\ configured'
                /\ effect'.binds = 0 /\ effect'.well_known = {}
                /\ listeners' = listeners
                /\ "anon" \in builders')
        /\ (last'.op \in BuilderMethods /\ effect'.builder = "anon")
            => (/\ last'.outcome = "ok"
                /\ last'.reqs = << >>
                /\ ~effect'.keyring /\ ~effect'.browser /\ effect'.binds = 0
                /\ configured
                /\ UNCHANGED <<configured, auth, session, builders, listeners,
                               oauth_current, flow>>)]_vars

C11_Witness ==
    /\ last.op = "with_stored_token"
    /\ effect.builder = "anon"
    /\ last.outcome = "ok"
    /\ builders = {"anon"}
    /\ listeners = 0
    /\ configured

AuthorizeEnded ==
    flow.pc = "idle" /\ last.op = "authorize" /\ effect.builder = "oidc"

\* C13: once interactive authorization has returned or raised (after a
\* callback, a timeout or a request without a code) no socket holds the
\* callback port.
C13_PortReleasedAfterAuthorization == AuthorizeEnded => listeners = 0

\* C14: the callback port is held only while an interactive authorization is
\* in progress: with_oidc against a 401 server constructs no callback server,
\* and no socket holds the port after with_token or with_stored_token.
C14_PortBoundOnlyDuringAuthorization ==
    /\ listeners > 0 => flow.pc # "idle"
    /\ last.op = "with_oidc" => effect.binds = 0
    /\ last.op \in {"with_token", "with_stored_token"} => listeners = 0

C16_WaitEndsOnGetOrTimeout ==
    /\ flow.ended # "none" => flow.ended \in {"GET", "timeout"}
    /\ flow.ended = "timeout" => flow.elapsed >= flow.timeout \/ flow.pc = "idle"
    /\ flow.captured <= 1

\* C17: an interactive authorization whose wait ended with the timeout
\* raises TimeoutError, sends no request and does not set _configured.
C17_TimeoutRaisesTimeoutError ==
    (AuthorizeEnded /\ flow.ended = "timeout")
        => (last.outcome = "TimeoutError" /\ last.reqs = << >> /\ ~last.conf)

\* C18: interactive authorization gives control back: the wait for the
\* callback never lasts longer than login_timeout, and the call is never left
\* waiting for something that no step of the program brings about (shutdown()
\* of a server on which serve_forever was never started).
C18_AuthorizationReturnsInTime ==
    /\ flow.pc \in {"wait", "handle"} => flow.elapsed <= flow.timeout
    /\ flow.pc # "shutdown"

\* the parameters a Bearer challenge carries (a token68 string carries none)
BearerParameters(hdr) == IF hdr.token68 THEN {} ELSE hdr.bearer

MissingEndpoints(doc) ==
    {f \in WellKnownFields : ~\E k \in doc : Lower(k) = f}

\* C20: when the well-known document lacks authorization_endpoint or
\* token_endpoint, with_oidc raises ConnectionError whose message names what
\* is missing and nothing else, and the setup stops there: no callback
\* server, no browser, no further request; when both are there under keys
\* of any case the discovery is accepted.
C20_MissingEndpointsNamed ==
    (last.op = "with_oidc" /\ Len(last.reqs) = 2) =>
        LET missing == MissingEndpoints(effect.well_known) IN
        /\ last.reqs[2].to = "idp"
        /\ missing # {} =>
              /\ last.outcome = "ConnectionError"
              /\ Contains(last.msg, <<"Unable", "to", "connect", "with", "OpenID",
                                      "Connect">>)
              /\ \A f \in WellKnownFields : Contains(last.msg, <<f>>) <=> f \in missing
              /\ effect.binds = 0 /\ ~effect.browser
              /\ ~last.conf
        /\ missing = {} => last.outcome \in {"ok", "OSError"}

C20_Witness ==
    /\ last.op = "with_oidc"
    /\ effect.well_known = {"TOKEN_ENDPOINT"}
    /\ last.outcome = "ConnectionError"
    /\ Contains(last.msg, <<"Well-known", "parameter", "authorization_endpoint">>)

(* ---------------- tokens: the properties ---------------- *)

\* the step is a call of with_stored_token on the builder of a session factory
StoredTokenStep == last'.op = "with_stored_token" /\ call'.token_name # None

\* C21: with_stored_token looks the refresh token up in the keyring under
\* (token_name, API URL); when there is no entry it raises ValueError and
\* leaves the session and the configured flag of the factory as they were;
\* otherwise it ends as with_token called with the stored value does: the
\* stored value is the refresh token of the OAuth2Session, which becomes the
\* session of the factory, the factory is configured, and nothing is sent.
C21_StoredTokenIsWithToken ==
    [][StoredTokenStep =>
        LET stored == passwords[<<call'.token_name, "api_url">>] IN
        /\ effect'.keyring
        /\ call'.refresh_token = stored
        /\ stored = None =>
              /\ last'.outcome = "ValueError"
              /\ last'.msg = MsgNoStored
              /\ UNCHANGED <<session, configured, oauth>>
        /\ stored # None =>
              /\ last'.outcome = "ok"
              /\ last'.reqs = << >>
              /\ session' = "oauth"
              /\ configured'
              /\ oauth' = [oauth EXCEPT !.refresh = stored]]_vars

C21_Witness ==
    /\ last.op = "with_stored_token"
    /\ call.token_name = "custom"
    /\ passwords[<<"custom", "api_url">>] = "B"
    /\ last.outcome = "ok"
    /\ oauth.refresh = "B"
    /\ session = "oauth"
    /\ configured

\* C22: with_token(R) raises ValueError ("refresh token was invalid") when
\* the identity provider rejects the refresh grant; the factory is not marked
\* configured.
C22_InvalidRefreshTokenRaises ==
    (last.op = "with_token" /\ idp = "reject")
        => (/\ last.outcome = "ValueError"
            /\ Contains(last.msg, <<"refresh", "token", "was", "invalid">>)
            /\ ~last.conf
            /\ ~configured)

\* C23: after with_token(R) against an identity provider that answers the
\* refresh grant 200 with an access token, the grant has been made by the
\* time a request goes through the connected client, and every such request
\* carries Authorization: Bearer <access_token>.
C23_RefreshGrantThenBearer ==
    (last.op = "request" /\ idp # "reject")
        => (/\ oauth.access # None
            /\ \A i \in 1..Len(last.reqs) :
                  last.reqs[i].to = "api" => last.reqs[i].auth = "bearer")

\* the refresh token the identity provider issues in exchange for R
NewToken(R) == IF R = "A" THEN "B" ELSE "A"

ConstructionStep == builders = {} /\ builders' = {"oidc"}

\* the parameters of the Bearer challenge that are apiAudience in some case
AudienceOf(pairs) ==
    {p \in pairs : p[1] \in {"apiAudience", "APIAUDIENCE", "apiaudience"}}

C26_KeyringOnlyRead == [][passwords' = passwords]_vars

C26_Witness ==
    /\ last.op = "with_stored_token"
    /\ last.outcome = "ok"
    /\ effect.keyring
    /\ passwords[<<call.token_name, "api_url">>] = oauth.refresh
    /\ oauth.refresh \in Tokens

\* C32: get_session_with_provided_token raises ValueError when the refresh
\* token is None: with_token(None), which hands its argument on, does not
\* return a session.
C32_NoRefreshTokenRaises ==
    (last.op = "with_token" /\ call.refresh_token = None)
        => (last.outcome = "ValueError" /\ session # "oauth")

\* C36: on every way out of the discovery of with_oidc (the well-known
\* document accepted, an endpoint missing from it, an exception raised by its
\* GET) the session of the factory carries the configuration of the API, so
\* that no later request to the API server goes out with the proxy,
\* certificate or header settings of the identity provider.
C36_DiscoveryRestoresApiConfiguration ==
    (last.op = "with_oidc" /\ Len(last.reqs) = 2) => session_kwargs = "api"

(* ---------------- the header: the properties ---------------- *)

\* the dictionary the tests expect for the challenges in order o:
\* outcomes.update(...) for one challenge after the other
RECURSIVE Updated(_, _)
Updated(outcomes, cs) ==
    IF cs = << >> THEN outcomes
    ELSE Updated(
             IF \E i \in DOMAIN outcomes : outcomes[i][1] = cs[1].scheme
             THEN [i \in DOMAIN outcomes |->
                      IF outcomes[i][1] = cs[1].scheme
                      THEN <<cs[1].scheme, cs[1].options>> ELSE outcomes[i]]
             ELSE Append(outcomes, <<cs[1].scheme, cs[1].options>>),
             Tail(cs))

ExpectedOf(o) == Updated(<< >>, [i \in DOMAIN o |-> challenges[o[i]]])

\* the headers of several challenges, each with the dictionary expected of it
Expectations == {<<HeaderOf(o), ExpectedOf(o)>> : o \in Orders}

\* C27: for every header of 1 to MaxChallenges distinct challenges among
\* Negotiate (bare), Bearer with one parameter, Bearer with two and Digest
\* (whose qop holds a comma), joined with ", " in any order,
\* parse_authenticate returns exactly the schemes of the header in its order,
\* keyed in lower case, a bare scheme with None and the others with their
\* parameters in the order of the header (of two Bearer challenges the entry
\* has the place of the first and the parameters of the second): no
\* parameter is taken for a scheme and no scheme for a parameter.
C27_ChallengesRecovered ==
    \A e \in Expectations :
        (www_authenticate = e[1] /\ parsed # NotParsed)
            => parsed = [outcome |-> "ok", msg |-> NoMsg, value |-> e[2]]

C27_Witness ==
    /\ www_authenticate = HeaderOf(<<2, 4, 1>>)
    /\ parsed.outcome = "ok"
    /\ Len(parsed.value) = 3
    /\ parsed.value[1] = <<BearerRealm.scheme, BearerRealm.options>>
    /\ parsed.value[2] = <<Digest.scheme, Digest.options>>
    /\ parsed.value[3] = <<Negotiate.scheme, NoOptions>>

\* C28: for Negotiate followed by a token68 with 0 to MaxPadding "=" at its
\* end, parse_authenticate maps negotiate to the whole token with its
\* padding, as a string: not to a dictionary and not to None.
C28_NegotiateTokenKept ==
    \A n \in 0..MaxPadding :
        (www_authenticate = NegotiateWith(n) /\ parsed # NotParsed)
            => parsed = [outcome |-> "ok", msg |-> NoMsg,
                         value |-> <<<<Negotiate.scheme,
                                      Str(PaddedToken(n))>>>>]

C28_Witness ==
    /\ www_authenticate = NegotiateWith(2)
    /\ parsed.outcome = "ok"
    /\ parsed.value[1][2].type = "str"
    /\ parsed.value[1][2].value = PaddedToken(2)

ImportErrorBeforeRequest ==
    /\ last.outcome = "ImportError"
    /\ last.reqs = << >>
    /\ last.resp = NoResp
    /\ ~last.conf
    /\ returned = {} => ~configured

\* C30: with_autologon raises ImportError on a host without the Kerberos
\* capability (not Windows, no linux-kerberos extra), and with_oidc raises
\* ImportError when the OIDC extras are not installed; in both cases no
\* request has been sent to the API server and the factory stays
\* unconfigured.
C30_MissingExtraRaisesImportError ==
    /\ (last.op = "with_autologon"
            /\ ~(platform_windows \/ linux_kerberos_enabled))
          => ImportErrorBeforeRequest
    /\ (last.op = "with_oidc" /\ ~oidc_enabled) => ImportErrorBeforeRequest

C30_Witness ==
    /\ last.op = "with_oidc"
    /\ ~oidc_enabled
    /\ ~(platform_windows \/ linux_kerberos_enabled)
    /\ last.outcome = "ImportError"
    /\ last.reqs = << >>
    /\ ~configured
    /\ builders = {}

(* ---------------- a 401 without a header: the properties ---------------- *)

\* C31: when the probe of with_credentials or with_autologon is answered 401
\* without a WWW-Authenticate header, the call raises ValueError, whose
\* message mentions www-authenticate; it attaches no scheme, sends no further
\* request and does not set _configured.
C31_MissingHeaderRaisesValueError ==
    (/\ last.op \in CredentialSteps
     /\ Probed
     /\ last.reqs[1].status = 401
     /\ last.reqs[1].header.kind = "absent")
        => /\ last.outcome = "ValueError"
           /\ Contains(last.msg, <<"www-authenticate">>)
           /\ Len(last.reqs) = 1
           /\ last.attached = "none"
           /\ ~last.conf

C31_Witness ==
    /\ last.op = "with_autologon"
    /\ Probed
    /\ last.reqs[1].status = 401
    /\ last.reqs[1].header.kind = "absent"
    /\ last.outcome = "ValueError"
    /\ ~configured

(* ---------------- the configured flag and the session: the properties ---------------- *)

\* C34: _configured is never reset: once it is set no call clears it, not
\* even a with_credentials or with_autologon that assigns session.auth and
\* then raises, and connect() on a configured factory returns a client.
C34_ConfiguredIsMonotonic ==
    [][/\ configured => configured'
       /\ (CallStep /\ configured /\ last'.op = "connect") => last'.outcome = "ok"]_vars

C34_Witness ==
    /\ configured
    /\ last.op \in CredentialSteps
    /\ last.outcome = "ApiConnectionException"
    /\ last.attached # "none"
    /\ auth = last.attached

\* C35: a with_token, with_stored_token or authorize that raises leaves the
\* session of the factory and _configured as they were before the call: the
\* session is replaced, and the flag set, only by a call that returns.
C35_FailedBuilderCallLeavesFactory ==
    [][(CallStep /\ last'.op \in BuilderMethods /\ last'.outcome # "ok")
          => /\ session' = session
             /\ oauth_current' = oauth_current
             /\ auth' = auth
             /\ configured' = configured]_vars

C35_Witness ==
    /\ last.op = "with_stored_token"
    /\ last.outcome = "ValueError"
    /\ effect.keyring
    /\ session = "requests"
    /\ ~configured

(* ---------------- the dictionary: the properties ---------------- *)

\* an insertion-ordered map keyed on lower-cased keys: the keys in the order
\* they were first set, and the value under each; Reference(d) is the map
\* that has the items d
Reference(d) ==
    [order |-> [i \in DOMAIN d |-> d[i][1]],
     val   |-> [k \in {d[i][1] : i \in DOMAIN d} |->
                   (CHOOSE p \in {d[i] : i \in DOMAIN d} : p[1] = k)[2]]]

\* the items are under lower-case keys, no two under the same
StoredLowerCase(d) ==
    /\ \A i \in DOMAIN d : d[i][1] = str_lower(d[i][1])
    /\ \A i, j \in DOMAIN d : i # j => d[i][1] # d[j][1]

\* the map with v under k: k keeps its place when it is there, and is last
\* when it is new
ReferenceSet(m, k, v) ==
    [order |-> IF k \in DOMAIN m.val THEN m.order ELSE Append(m.order, k),
     val   |-> [x \in DOMAIN m.val \cup {k} |-> IF x = k THEN v ELSE m.val[x]]]

\* the map without k
ReferenceDelete(m, k) ==
    [order |-> SelectSeq(m.order, LAMBDA x : x # k),
     val   |-> [x \in DOMAIN m.val \ {k} |-> m.val[x]]]

\* the map after the pairs are set in their order, each under its key in
\* lower case
RECURSIVE ReferenceUpdate(_, _)
ReferenceUpdate(m, pairs) ==
    IF pairs = << >> THEN m
    ELSE ReferenceUpdate(ReferenceSet(m, str_lower(pairs[1][1]), pairs[1][2]),
                         Tail(pairs))

\* what the reference map m does for the call c, a call of a method on a key:
\* what it raises or returns, and the map after it
ReferenceOnKey(m, c, k) ==
    CASE c.op = "__getitem__" ->
            IF k \in DOMAIN m.val
            THEN [outcome |-> "ok", result |-> m.val[k], after |-> m]
            ELSE [outcome |-> "KeyError", result |-> None, after |-> m]
      [] c.op = "__setitem__" ->
            [outcome |-> "ok", result |-> None, after |-> ReferenceSet(m, k, c.given)]
      [] c.op = "__delitem__" ->
            IF k \in DOMAIN m.val
            THEN [outcome |-> "ok", result |-> None, after |-> ReferenceDelete(m, k)]
            ELSE [outcome |-> "KeyError", result |-> None, after |-> m]
      [] c.op = "get" ->
            [outcome |-> "ok",
             result |-> IF k \in DOMAIN m.val THEN m.val[k] ELSE c.given,
             after |-> m]
      [] c.op = "setdefault" ->
            IF k \in DOMAIN m.val
            THEN [outcome |-> "ok", result |-> m.val[k], after |-> m]
            ELSE [outcome |-> "ok", result |-> c.given,
                  after |-> ReferenceSet(m, k, c.given)]
      [] c.op = "pop" ->
            IF k \in DOMAIN m.val
            THEN [outcome |-> "ok", result |-> m.val[k],
                  after |-> ReferenceDelete(m, k)]
            ELSE IF c.given = NotGiven
            THEN [outcome |-> "KeyError", result |-> None, after |-> m]
            ELSE [outcome |-> "ok", result |-> c.given, after |-> m]

\* the call c on the dictionary with the items d gave what the reference map
\* gives, and left the items of the map after it
SameAsReference(d, c) ==
    /\ StoredLowerCase(c.dict)
    /\ CASE c.op = "update" ->
                /\ c.outcome = "ok"
                /\ Reference(c.dict) = ReferenceUpdate(Reference(d), c.given)
         [] c.op = "__contains__" ->
                /\ c.outcome = "ok"
                /\ c.result = (str_lower(c.key) \in DOMAIN Reference(d).val)
                /\ c.dict = d
         [] c.op = "copy" ->
                /\ c.outcome = "ok"
                /\ StoredLowerCase(c.result)
                /\ Reference(c.result) = Reference(d)
                /\ c.dict = d
         [] c.op = "fromkeys" ->
                /\ c.outcome = "ok"
                /\ StoredLowerCase(c.result)
                /\ Reference(c.result)
                       = ReferenceUpdate(Reference(<< >>),
                                         [i \in DOMAIN c.key |-> <<c.key[i], c.given>>])
                /\ c.dict = d
         [] OTHER ->
                /\ c.outcome = ReferenceOnKey(Reference(d), c, str_lower(c.key)).outcome
                /\ c.result = ReferenceOnKey(Reference(d), c, str_lower(c.key)).result
                /\ Reference(c.dict)
                       = ReferenceOnKey(Reference(d), c, str_lower(c.key)).after

AllButPopWithoutDefault ==
    [][(/\ mapping' # mapping
        /\ ~(/\ mapping'.op = "pop"
             /\ mapping'.given = NotGiven
             /\ lookup(mapping.dict, mapping'.key) = {}))
          => SameAsReference(mapping.dict, mapping')]_vars

====
